---- MODULE Spec2Model ----
(***************************************************************************)
(* Sound engine of the digital piano (daisy_seed/play_notes_from_arduino): *)
(* the voice table g_sounds, the audio callback that mixes the playing     *)
(* voices frame by frame, and the dispatcher that turns the key and pedal  *)
(* messages into writes to the voice table.                                *)
(*                                                                         *)
(* Two specifications share the state:                                     *)
(*   Spec      every dispatcher event runs to completion between two       *)
(*             callback frames;                                            *)
(*   SpecConc  the dispatcher performs one load or store at a time and the *)
(*             callback (an interrupt) may run a frame between any two.    *)
(***************************************************************************)
EXTENDS Integers, Sequences, FiniteSets, TLC

VARIABLES g_sounds, g_pedal_up, disp, last, rel_frames, msg, load

vars == <<g_sounds, g_pedal_up, disp, last, rel_frames, msg, load>>

(***************************************************************************)
(* Sizes.  The program has 85 notes, 2 special sounds, a release envelope  *)
(* of 11000 samples and sounds of several hundred thousand samples; the    *)
(* model keeps the structure and scales the sizes down.                    *)
(***************************************************************************)
NB_KEYS == 2

NB_SPECIAL_SOUNDS == 1

NB_SOUNDS == NB_KEYS + NB_SPECIAL_SOUNDS

\* Length of the release envelope in samples (scaled down).
WAV_ENV_END_NB_SAMPLES == 2

\* Number of samples of the longest wav file of the model.
MaxNbSamples == 5

MAX_ATTACK_TIME == 100000

MIN_ATTACK_TIME == 10000

\* size_t differences wrap around.  The wrapped value is only ever compared
\* with an envelope length, so the model wraps at the largest integer the
\* checker represents instead of at 2^32.
SIZE_T_WRAP == 2147483647

Sounds == 0 .. (NB_SOUNDS - 1)

SpecialSounds == 0 .. (NB_SPECIAL_SOUNDS - 1)

Keys == 0 .. (NB_KEYS - 1)

NoteSounds == {NB_SPECIAL_SOUNDS + k : k \in Keys}

\* Attack times a KEY_DOWN message can carry (a sample of the uint32 range).
AttackTimes == {MIN_ATTACK_TIME, MAX_ATTACK_TIME}


\* The messages of the specification with the interleaved dispatcher: the
\* keys that are played and the attack time they are played with.  The pedal
\* loops still run over every note.
ConcKeys == {0}

ConcAttackTimes == {MAX_ATTACK_TIME}

(***************************************************************************)
(* Pure functions.                                                         *)
(***************************************************************************)
size_t_sub(a, b) == IF a >= b THEN a - b ELSE SIZE_T_WRAP - (b - a)

(***************************************************************************)
(* compute_volume, in the float arithmetic of the program.  A float of the *)
(* model is a pair [a, b] that stands for (a + b / 4096) * 2^-28, a >= 0   *)
(* and 0 <= b < 4096: 40 binary places, enough for the exact product of    *)
(* the slope by an attack time; a volume is its a (b is 0 from 2^-5 up).   *)
(***************************************************************************)
RECURSIVE Pow2(_)
Pow2(k) == IF k = 0 THEN 1 ELSE 2 * Pow2(k - 1)

RECURSIVE BitLen(_)
\* Number of binary digits of n >= 0.
BitLen(n) == IF n = 0 THEN 0 ELSE 1 + BitLen(n \div 2)

\* Rounding to nearest, ties to even: TRUE when the kept digits, of lowest
\* digit `odd`, go one up for the dropped part r of s digits (with `sticky`
\* digits below it).
RoundsUp(odd, r, sticky, s) ==
    LET half == Pow2(s - 1)
    IN  r > half \/ (r = half /\ (sticky \/ odd))

\* The nearest float (24 significant binary digits) of x = [a, b].
RoundF32(x) ==
    LET len == BitLen(x.a) IN
    IF len > 24
    THEN LET s == len - 24
             q == x.a \div Pow2(s)
             up == RoundsUp(q % 2 = 1, x.a % Pow2(s), x.b > 0, s)
         IN  [a |-> (IF up THEN q + 1 ELSE q) * Pow2(s), b |-> 0]
    ELSE IF len <= 12
    THEN x
    ELSE LET s == len - 12
             q == x.b \div Pow2(s)
             odd == IF s = 12 THEN x.a % 2 = 1 ELSE q % 2 = 1
             up == RoundsUp(odd, x.b % Pow2(s), FALSE, s)
             y == (IF up THEN q + 1 ELSE q) * Pow2(s)
         IN  IF y = 4096 THEN [a |-> x.a + 1, b |-> 0] ELSE [a |-> x.a, b |-> y]

\* slope = -0.9 / (float)(MAX_ATTACK_TIME - MIN_ATTACK_TIME), stored in a
\* float: -10995116 * 2^-40 (-0x1.4f8b58p-17), with or without
\* single-precision constants.
SLOPE_MANT == 10995116

\* offset = 1.0 - slope * (float)MIN_ATTACK_TIME, stored in a float:
\* 9227469 * 2^-23 (0x1.19999ap+0).
OFFSET_MANT == 9227469

\* 1.0f, in units of 2^-28.
VolScale == 268435456

\* 0.1f = 13421773 * 2^-27 (0x1.99999ap-4), in units of 2^-28.
MIN_GAIN == 26843546

\* The exact product -(slope * (float)attack_time); (float)attack_time is
\* attack_time itself below 2^24.
slope_times(attack_time) ==
    LET hi == (SLOPE_MANT \div 4096) * attack_time
        lo == (SLOPE_MANT % 4096) * attack_time
    IN  [a |-> hi + lo \div 4096, b |-> lo % 4096]

\* compute_volume that clamps a small factor to 1.0f.
clamp_volume_SameBound(neg, amp) ==
    IF neg THEN VolScale
    ELSE IF amp.a > VolScale \/ amp.a < MIN_GAIN THEN VolScale
    ELSE amp.a

\* compute_volume without the lower clamp.
clamp_volume_NoLower(neg, amp) ==
    IF neg THEN 0
    ELSE IF amp.a > VolScale THEN VolScale
    ELSE amp.a

\* The two tests on amp_factor; neg: the sum is below zero.
clamp_volume(neg, amp) ==
    IF neg THEN MIN_GAIN
    ELSE IF amp.a > VolScale THEN VolScale
    ELSE IF amp.a < MIN_GAIN THEN MIN_GAIN
    ELSE amp.a

\* amp_factor = slope * (float)attack_time + offset and its clamp.  With
\* fp_contract the build fuses the product and the sum (one rounding), as the
\* compiler may for this target; without, the product is rounded first.
compute_volume_on(fp_contract, attack_time) ==
    LET exact  == slope_times(attack_time)
        prod   == IF fp_contract THEN exact ELSE RoundF32(exact)
        borrow == IF prod.b > 0 THEN 1 ELSE 0
        sum_a  == OFFSET_MANT * 32 - prod.a - borrow
        sum_b  == (4096 - prod.b) % 4096
    IN  IF sum_a < 0
        THEN clamp_volume(TRUE, [a |-> 0, b |-> 0])
        ELSE clamp_volume(FALSE, RoundF32([a |-> sum_a, b |-> sum_b]))

\* compute_volume as the source states it, product then sum.
compute_volume(attack_time) == compute_volume_on(FALSE, attack_time)

\* The amplifications the MIDI driver passes to start_playing_a_note:
\* velocity / 80.0, here for velocity 80 (1.0).
MidiAmplifications == {VolScale}

\* Number of bytes read_wav_file returns for each sound: the wav files of the
\* SD card.  The special sounds have one sample; the first note is the longest
\* file, with room for a whole release before its end, the next notes are
\* shorter than the release envelope, down to a file that failed to load.
read_wav_file(sound_idx) ==
    IF sound_idx \in SpecialSounds
    THEN 2 * 1
    ELSE LET k == sound_idx - NB_SPECIAL_SOUNDS
         IN  IF MaxNbSamples > 4 * k THEN 2 * (MaxNbSamples - 4 * k) ELSE 0

nb_samples_loaded(sound_idx) == read_wav_file(sound_idx) \div 2

RECURSIVE cur_sound_pos(_)
\* Position where sound sound_idx is loaded: where the previous one ended.
cur_sound_pos(sound_idx) ==
    IF sound_idx = 0 THEN 0
    ELSE cur_sound_pos(sound_idx - 1) + nb_samples_loaded(sound_idx - 1)

\* A voice after initialize_global_variables and the two load functions.
LoadedSound(sound_idx) ==
    [ first_sample_pos |-> cur_sound_pos(sound_idx),
      last_sample_pos  |-> cur_sound_pos(sound_idx) + nb_samples_loaded(sound_idx),
      nb_samples       |-> nb_samples_loaded(sound_idx),
      playing          |-> FALSE,
      cur_playing_pos  |-> cur_sound_pos(sound_idx),
      key_up           |-> TRUE,
      key_up_pos       |-> cur_sound_pos(sound_idx),
      pedal_up_pos     |-> cur_sound_pos(sound_idx),
      volume           |-> 0,
      sound_end_soon   |-> FALSE ]

(***************************************************************************)
(* The audio callback: one frame, for one voice.                           *)
(***************************************************************************)
\* EndSoon that never starts the release before the end of the note.
EndSoon_Never(s) == s

\* EndSoon that sets the flag and leaves the release positions.
EndSoon_NoPositions(s) ==
    IF size_t_sub(s.last_sample_pos, s.cur_playing_pos) <= WAV_ENV_END_NB_SAMPLES
       /\ s.sound_end_soon = FALSE
    THEN [s EXCEPT !.sound_end_soon = TRUE]
    ELSE s

\* "Before the note end, we simulate a normal release".
EndSoon(s) ==
    IF size_t_sub(s.last_sample_pos, s.cur_playing_pos) <= WAV_ENV_END_NB_SAMPLES
       /\ s.sound_end_soon = FALSE
    THEN [s EXCEPT !.sound_end_soon = TRUE,
                   !.key_up_pos     = s.cur_playing_pos,
                   !.pedal_up_pos   = s.cur_playing_pos]
    ELSE s

\* InRelease without the test of the pedal.
InRelease_NoPedal(s, pedal_up) == s.key_up \/ s.sound_end_soon

\* The release branch is taken.
InRelease(s, pedal_up) == (s.key_up /\ pedal_up) \/ s.sound_end_soon

\* release_pos that always takes the position of the key.
release_pos_KeyOnly(s) == s.key_up_pos

release_pos(s) ==
    IF s.key_up_pos < s.pedal_up_pos THEN s.pedal_up_pos ELSE s.key_up_pos

\* End of the release: the re-initialisation of the voice.
ReInit(s) ==
    [s EXCEPT !.cur_playing_pos = s.first_sample_pos,
              !.key_up_pos      = s.first_sample_pos,
              !.pedal_up_pos    = s.first_sample_pos,
              !.playing         = FALSE,
              !.key_up          = FALSE,
              !.sound_end_soon  = FALSE,
              !.volume          = 0]

ReleaseEnded(s) ==
    size_t_sub(s.cur_playing_pos, release_pos(s)) >= WAV_ENV_END_NB_SAMPLES

Release(s, pedal_up) ==
    IF InRelease(s, pedal_up) /\ ReleaseEnded(s) THEN ReInit(s) ELSE s

\* Numerator of the release factor (over WAV_ENV_END_NB_SAMPLES).
release_factor(s, pedal_up) ==
    IF ~InRelease(s, pedal_up) THEN WAV_ENV_END_NB_SAMPLES
    ELSE IF ReleaseEnded(s) THEN 0
    ELSE release_pos(s) + WAV_ENV_END_NB_SAMPLES - s.cur_playing_pos

\* IncrementPos without the test of the end of the note.
IncrementPos_NoGuard(s) ==
    [s EXCEPT !.cur_playing_pos = s.cur_playing_pos + 1]

\* "Increment current read position (if end of note not reached)".
IncrementPos(s) ==
    IF s.cur_playing_pos < s.last_sample_pos
    THEN [s EXCEPT !.cur_playing_pos = s.cur_playing_pos + 1]
    ELSE s

\* The body of the loop over the sounds, for one sound.
FrameVoice(s, pedal_up) ==
    IF s.playing = TRUE
    THEN IncrementPos(Release(EndSoon(s), pedal_up))
    ELSE s

(***************************************************************************)
(* The dispatcher's writes.                                                *)
(***************************************************************************)
\* TriggerWrite without the store of pedal_up_pos.
TriggerWrite_NoPedalPos(k, s, vol) ==
    CASE k = 1 -> [s EXCEPT !.volume          = vol]
      [] k = 2 -> [s EXCEPT !.cur_playing_pos = s.first_sample_pos]
      [] k = 3 -> [s EXCEPT !.key_up_pos      = s.first_sample_pos]
      [] k = 4 -> s
      [] k = 5 -> [s EXCEPT !.key_up          = FALSE]
      [] k = 6 -> [s EXCEPT !.sound_end_soon  = FALSE]
      [] k = 7 -> [s EXCEPT !.playing         = TRUE]

\* TriggerWrite with playing = true stored before the positions and flags.
TriggerWrite_PlayingEarly(k, s, vol) ==
    CASE k = 1 -> [s EXCEPT !.volume          = vol]
      [] k = 2 -> [s EXCEPT !.playing         = TRUE]
      [] k = 3 -> [s EXCEPT !.cur_playing_pos = s.first_sample_pos]
      [] k = 4 -> [s EXCEPT !.key_up_pos      = s.first_sample_pos]
      [] k = 5 -> [s EXCEPT !.pedal_up_pos    = s.first_sample_pos]
      [] k = 6 -> [s EXCEPT !.key_up          = FALSE]
      [] k = 7 -> [s EXCEPT !.sound_end_soon  = FALSE]

\* The k-th store of a trigger (KEY_DOWN, start_playing_a_note,
\* play_special_sound), in program order.
TriggerWrite(k, s, vol) ==
    CASE k = 1 -> [s EXCEPT !.volume          = vol]
      [] k = 2 -> [s EXCEPT !.cur_playing_pos = s.first_sample_pos]
      [] k = 3 -> [s EXCEPT !.key_up_pos      = s.first_sample_pos]
      [] k = 4 -> [s EXCEPT !.pedal_up_pos    = s.first_sample_pos]
      [] k = 5 -> [s EXCEPT !.key_up          = FALSE]
      [] k = 6 -> [s EXCEPT !.sound_end_soon  = FALSE]
      [] k = 7 -> [s EXCEPT !.playing         = TRUE]

NbTriggerWrites == 7

RECURSIVE TriggerWrites(_, _, _)
\* The first k stores of a trigger.
TriggerWrites(k, s, vol) ==
    IF k = 0 THEN s ELSE TriggerWrite(k, TriggerWrites(k - 1, s, vol), vol)

\* KeyUpStore that records the start of the sound instead of the position.
KeyUpStore_First(s, loaded) == [s EXCEPT !.key_up_pos = s.first_sample_pos]

\* key_up_pos = cur_playing_pos: the store of the value loaded before.
KeyUpStore(s, loaded) == [s EXCEPT !.key_up_pos = loaded]

\* key_up = true.
KeyUpFlag(s) == [s EXCEPT !.key_up = TRUE]

\* The two statements of KEY_UP, run without interruption.
KeyUpWrites(s) == KeyUpFlag(KeyUpStore(s, s.cur_playing_pos))

\* PedalDownWrite that resets the key release position as well.
PedalDownWrite_KeyToo(s) ==
    [s EXCEPT !.pedal_up_pos = s.first_sample_pos, !.key_up_pos = s.first_sample_pos]

PedalDownWrite(s) == [s EXCEPT !.pedal_up_pos = s.first_sample_pos]

\* PedalUpStore that records the position of the first note for every note.
PedalUpStore_FirstNote(s, loaded) ==
    [s EXCEPT !.pedal_up_pos = s.first_sample_pos]

\* pedal_up_pos = cur_playing_pos: the store of the value loaded before.
PedalUpStore(s, loaded) == [s EXCEPT !.pedal_up_pos = loaded]

PedalUpWrite(s) == PedalUpStore(s, s.cur_playing_pos)

(***************************************************************************)
(* State.                                                                  *)
(***************************************************************************)
\* The phase of a voice, as the callback derives it from the fields.
Phase(s, pedal_up) ==
    IF ~s.playing THEN "rest"
    ELSE IF InRelease(s, pedal_up) THEN "release"
    ELSE "sustain"

\* The dispatcher between two messages.  pc is the handler it is in, op the
\* event, sound the voice, vol the volume to store, k the next store or the
\* loop index, tmp the loaded position; before records the phase of the voice
\* when the trigger began and preempted whether a frame has run since the
\* handler began.
Idle ==
    [ pc |-> "idle", op |-> "none", sound |-> 0, vol |-> 0, k |-> 0, tmp |-> 0,
      before |-> "none", preempted |-> FALSE ]

\* The voice is playing, its key is up and the pedal is up.
Releasing(snd, pedal_up, i) ==
    snd[i].playing /\ snd[i].key_up /\ pedal_up

\* No message of the keyboard is being handled.
NoMsg == [ pc |-> "none" ]

\* The two load functions have returned.
Loaded == [ pc |-> "loaded" ]

Init ==
    /\ g_sounds   = [i \in Sounds |-> LoadedSound(i)]
    /\ g_pedal_up = TRUE
    /\ disp       = Idle
    /\ last       = [ op |-> "main", sound |-> 0, before |-> "none" ]
    /\ rel_frames = [i \in Sounds |-> 0]
    /\ msg        = NoMsg
    /\ load       = Loaded

\* A dispatcher event that writes the voices in `touched` restarts the count
\* of the frames these voices have spent releasing.
EventFrames(touched) ==
    rel_frames' = [i \in Sounds |-> IF i \in touched THEN 0 ELSE rel_frames[i]]

(***************************************************************************)
(* The audio callback, one frame.                                          *)
(***************************************************************************)
AudioCallback ==
    /\ g_sounds' = [i \in Sounds |-> FrameVoice(g_sounds[i], g_pedal_up)]
    /\ rel_frames' =
          [i \in Sounds |->
              IF ~Releasing(g_sounds', g_pedal_up, i) THEN 0
              ELSE IF Releasing(g_sounds, g_pedal_up, i)
                      /\ rel_frames[i] <= WAV_ENV_END_NB_SAMPLES
                   THEN rel_frames[i] + 1
                   ELSE rel_frames[i]]
    /\ last' = [ op |-> "Frame", sound |-> 0, before |-> "none" ]
    /\ disp' = IF disp.pc = "idle" THEN disp ELSE [disp EXCEPT !.preempted = TRUE]
    /\ UNCHANGED g_pedal_up
    /\ UNCHANGED <<msg, load>>

(***************************************************************************)
(* The dispatcher, one event at a time (manage_msg_received_in_normal_mode *)
(* and play_special_sound run to completion).                              *)
(***************************************************************************)
KeyDown(key_index, attack_time) ==
    LET i == NB_SPECIAL_SOUNDS + key_index IN
    /\ disp.pc = "idle"
    /\ g_sounds' = [g_sounds EXCEPT
                      ![i] = TriggerWrites(NbTriggerWrites, g_sounds[i],
                                           compute_volume(attack_time))]
    /\ last' = [ op |-> "KeyDown", sound |-> i,
                 before |-> Phase(g_sounds[i], g_pedal_up) ]
    /\ EventFrames({i})
    /\ UNCHANGED <<g_pedal_up, disp>>
    /\ UNCHANGED <<msg, load>>

KeyUp(key_index) ==
    LET i == NB_SPECIAL_SOUNDS + key_index IN
    /\ disp.pc = "idle"
    /\ g_sounds' = [g_sounds EXCEPT ![i] = KeyUpWrites(g_sounds[i])]
    /\ last' = [ op |-> "KeyUp", sound |-> i, before |-> "none" ]
    /\ EventFrames({i})
    /\ UNCHANGED <<g_pedal_up, disp>>
    /\ UNCHANGED <<msg, load>>

\* start_playing_a_note of common.cpp, the trigger of the MIDI driver.
start_playing_a_note(key_index, amplification) ==
    LET i == NB_SPECIAL_SOUNDS + key_index IN
    /\ disp.pc = "idle"
    /\ g_sounds' = [g_sounds EXCEPT
                      ![i] = TriggerWrites(NbTriggerWrites, g_sounds[i], amplification)]
    /\ last' = [ op |-> "start_playing_a_note", sound |-> i,
                 before |-> Phase(g_sounds[i], g_pedal_up) ]
    /\ EventFrames({i})
    /\ UNCHANGED <<g_pedal_up, disp>>
    /\ UNCHANGED <<msg, load>>

\* stop_playing_a_note of common.cpp.
stop_playing_a_note(key_index) ==
    LET i == NB_SPECIAL_SOUNDS + key_index IN
    /\ disp.pc = "idle"
    /\ g_sounds' = [g_sounds EXCEPT ![i] = KeyUpWrites(g_sounds[i])]
    /\ last' = [ op |-> "stop_playing_a_note", sound |-> i, before |-> "none" ]
    /\ EventFrames({i})
    /\ UNCHANGED <<g_pedal_up, disp>>
    /\ UNCHANGED <<msg, load>>

PedalDown ==
    /\ disp.pc = "idle"
    /\ g_pedal_up' = FALSE
    /\ g_sounds' = [i \in Sounds |->
                      IF i \in NoteSounds THEN PedalDownWrite(g_sounds[i])
                      ELSE g_sounds[i]]
    /\ last' = [ op |-> "PedalDown", sound |-> 0, before |-> "none" ]
    /\ EventFrames(NoteSounds)
    /\ UNCHANGED <<disp>>
    /\ UNCHANGED <<msg, load>>

PedalUp ==
    /\ disp.pc = "idle"
    /\ g_sounds' = [i \in Sounds |->
                      IF i \in NoteSounds THEN PedalUpWrite(g_sounds[i])
                      ELSE g_sounds[i]]
    /\ g_pedal_up' = TRUE
    /\ last' = [ op |-> "PedalUp", sound |-> 0, before |-> "none" ]
    /\ EventFrames(NoteSounds)
    /\ UNCHANGED <<disp>>
    /\ UNCHANGED <<msg, load>>

play_special_sound(sound_idx) ==
    /\ disp.pc = "idle"
    /\ g_sounds' = [g_sounds EXCEPT
                      ![sound_idx] = TriggerWrites(NbTriggerWrites,
                                                   g_sounds[sound_idx], VolScale)]
    /\ last' = [ op |-> "Special", sound |-> sound_idx,
                 before |-> Phase(g_sounds[sound_idx], g_pedal_up) ]
    /\ EventFrames({sound_idx})
    /\ UNCHANGED <<g_pedal_up, disp>>
    /\ UNCHANGED <<msg, load>>

Next ==
    \/ AudioCallback
    \/ \E key_index \in Keys, attack_time \in AttackTimes :
          KeyDown(key_index, attack_time)
    \/ \E key_index \in Keys : KeyUp(key_index)
    \/ \E key_index \in Keys, amplification \in MidiAmplifications :
          start_playing_a_note(key_index, amplification)
    \/ \E key_index \in Keys : stop_playing_a_note(key_index)
    \/ PedalDown
    \/ PedalUp
    \/ \E sound_idx \in SpecialSounds : play_special_sound(sound_idx)

Spec == Init /\ [][Next]_vars

\* The audio hardware calls the callback periodically, for ever: a frame that
\* can change the state eventually runs.
SpecLive == Init /\ [][Next]_vars /\ WF_vars(AudioCallback)

(***************************************************************************)
(* The dispatcher, one load or store at a time.  Each handler begins with  *)
(* its first access to the shared state and goes on with one access per    *)
(* step; the callback may run between any two steps.                       *)
(***************************************************************************)
\* The first store of a trigger: the volume.
BeginTrigger(op, i, vol) ==
    /\ disp.pc = "idle"
    /\ g_sounds' = [g_sounds EXCEPT ![i] = TriggerWrite(1, g_sounds[i], vol)]
    /\ disp' = [ pc |-> "trigger", op |-> op, sound |-> i, vol |-> vol, k |-> 2,
                 tmp |-> 0, before |-> Phase(g_sounds[i], g_pedal_up),
                 preempted |-> FALSE ]
    /\ EventFrames({i})
    /\ UNCHANGED <<g_pedal_up, last>>
    /\ UNCHANGED <<msg, load>>

BeginKeyDown(key_index, attack_time) ==
    BeginTrigger("KeyDown", NB_SPECIAL_SOUNDS + key_index, compute_volume(attack_time))

\* The trigger of the MIDI driver.
BeginStartNote(key_index, amplification) ==
    BeginTrigger("start_playing_a_note", NB_SPECIAL_SOUNDS + key_index, amplification)

BeginSpecial(sound_idx) == BeginTrigger("Special", sound_idx, VolScale)

\* The next store of the trigger; the last one ends the handler.
TriggerStep ==
    /\ disp.pc = "trigger"
    /\ g_sounds' = [g_sounds EXCEPT
                      ![disp.sound] = TriggerWrite(disp.k, g_sounds[disp.sound], disp.vol)]
    /\ IF disp.k = NbTriggerWrites
       THEN /\ disp' = Idle
            /\ last' = [ op |-> disp.op, sound |-> disp.sound, before |-> disp.before ]
       ELSE /\ disp' = [disp EXCEPT !.k = disp.k + 1]
            /\ UNCHANGED last
    /\ EventFrames({disp.sound})
    /\ UNCHANGED g_pedal_up
    /\ UNCHANGED <<msg, load>>

\* KEY_UP: the load of cur_playing_pos.
BeginKeyUp(key_index) ==
    LET i == NB_SPECIAL_SOUNDS + key_index IN
    /\ disp.pc = "idle"
    /\ disp' = [Idle EXCEPT !.pc = "keyup", !.op = "KeyUp", !.sound = i, !.k = 1,
                            !.tmp = g_sounds[i].cur_playing_pos]
    /\ EventFrames({i})
    /\ UNCHANGED <<g_sounds, g_pedal_up, last>>
    /\ UNCHANGED <<msg, load>>

\* KEY_UP: the store of key_up_pos, then the store of key_up.
KeyUpStep ==
    /\ disp.pc = "keyup"
    /\ IF disp.k = 1
       THEN /\ g_sounds' = [g_sounds EXCEPT
                              ![disp.sound] = KeyUpStore(g_sounds[disp.sound], disp.tmp)]
            /\ disp' = [disp EXCEPT !.k = 2]
            /\ UNCHANGED last
       ELSE /\ g_sounds' = [g_sounds EXCEPT
                              ![disp.sound] = KeyUpFlag(g_sounds[disp.sound])]
            /\ disp' = Idle
            /\ last' = [ op |-> "KeyUp", sound |-> disp.sound, before |-> "none" ]
    /\ EventFrames({disp.sound})
    /\ UNCHANGED g_pedal_up
    /\ UNCHANGED <<msg, load>>

\* PEDAL_DOWN: g_pedal_up = false, before the loop over the notes.
BeginPedalDown ==
    /\ disp.pc = "idle"
    /\ g_pedal_up' = FALSE
    /\ disp' = [Idle EXCEPT !.pc = "pedaldown", !.op = "PedalDown", !.k = 0]
    /\ EventFrames(NoteSounds)
    /\ UNCHANGED <<g_sounds, last>>
    /\ UNCHANGED <<msg, load>>

\* PEDAL_DOWN: one iteration of the loop.
PedalDownStep ==
    LET i == NB_SPECIAL_SOUNDS + disp.k IN
    /\ disp.pc = "pedaldown"
    /\ g_sounds' = [g_sounds EXCEPT ![i] = PedalDownWrite(g_sounds[i])]
    /\ IF disp.k + 1 = NB_KEYS
       THEN /\ disp' = Idle
            /\ last' = [ op |-> "PedalDown", sound |-> 0, before |-> "none" ]
       ELSE /\ disp' = [disp EXCEPT !.k = disp.k + 1]
            /\ UNCHANGED last
    /\ EventFrames({i})
    /\ UNCHANGED g_pedal_up
    /\ UNCHANGED <<msg, load>>

\* PEDAL_UP: the load of the first note's cur_playing_pos.
BeginPedalUp ==
    /\ disp.pc = "idle"
    /\ disp' = [Idle EXCEPT !.pc = "pedalup_store", !.op = "PedalUp", !.k = 0,
                            !.tmp = g_sounds[NB_SPECIAL_SOUNDS].cur_playing_pos]
    /\ EventFrames(NoteSounds)
    /\ UNCHANGED <<g_sounds, g_pedal_up, last>>
    /\ UNCHANGED <<msg, load>>

\* PEDAL_UP: the store of pedal_up_pos of note k.
PedalUpStoreStep ==
    LET i == NB_SPECIAL_SOUNDS + disp.k IN
    /\ disp.pc = "pedalup_store"
    /\ g_sounds' = [g_sounds EXCEPT ![i] = PedalUpStore(g_sounds[i], disp.tmp)]
    /\ disp' = [disp EXCEPT !.pc = IF disp.k + 1 = NB_KEYS THEN "pedalup_flag"
                                   ELSE "pedalup_load",
                            !.k = disp.k + 1]
    /\ EventFrames({i})
    /\ UNCHANGED <<g_pedal_up, last>>
    /\ UNCHANGED <<msg, load>>

\* PEDAL_UP: the load of cur_playing_pos of note k.
PedalUpLoadStep ==
    /\ disp.pc = "pedalup_load"
    /\ disp' = [disp EXCEPT !.pc = "pedalup_store",
                            !.tmp = g_sounds[NB_SPECIAL_SOUNDS + disp.k].cur_playing_pos]
    /\ UNCHANGED <<g_sounds, g_pedal_up, last, rel_frames>>
    /\ UNCHANGED <<msg, load>>

\* PEDAL_UP: g_pedal_up = true, after the loop.
PedalUpFlagStep ==
    /\ disp.pc = "pedalup_flag"
    /\ g_pedal_up' = TRUE
    /\ disp' = Idle
    /\ last' = [ op |-> "PedalUp", sound |-> 0, before |-> "none" ]
    /\ EventFrames(NoteSounds)
    /\ UNCHANGED g_sounds
    /\ UNCHANGED <<msg, load>>

NextConc ==
    \/ AudioCallback
    \/ \E key_index \in ConcKeys, attack_time \in ConcAttackTimes :
          BeginKeyDown(key_index, attack_time)
    \/ \E key_index \in ConcKeys, amplification \in MidiAmplifications :
          BeginStartNote(key_index, amplification)
    \/ \E sound_idx \in SpecialSounds : BeginSpecial(sound_idx)
    \/ TriggerStep
    \/ \E key_index \in ConcKeys : BeginKeyUp(key_index)
    \/ KeyUpStep
    \/ BeginPedalDown
    \/ PedalDownStep
    \/ BeginPedalUp
    \/ PedalUpStoreStep
    \/ PedalUpLoadStep
    \/ PedalUpFlagStep

SpecConc == Init /\ [][NextConc]_vars

(***************************************************************************)
(* The volume of a key-down message.  manage_msg_received hands the time   *)
(* of the message to compute_volume; here the messages of one build are    *)
(* handled one after the other and the volume of the message before is     *)
(* kept, so that the volumes of any two attack times sit side by side.     *)
(***************************************************************************)
\* Attack times this close to MIN_ATTACK_TIME and MAX_ATTACK_TIME are all drawn.
AttackTimeMargin == 20

\* Between the two, one attack time every AttackTimeStep is drawn.
AttackTimeStep == 10000

\* The longest attack time drawn.
LongestAttackTime == 700000

AttackTimeSamples ==
    {0, 1, LongestAttackTime}
        \cup ((MIN_ATTACK_TIME - AttackTimeMargin) .. (MIN_ATTACK_TIME + AttackTimeMargin))
        \cup ((MAX_ATTACK_TIME - AttackTimeMargin) .. (MAX_ATTACK_TIME + AttackTimeMargin))
        \cup {time \in MIN_ATTACK_TIME .. MAX_ATTACK_TIME :
                 (time - MIN_ATTACK_TIME) % AttackTimeStep = 0}

\* A key-down message whose time has been read; `earlier` holds the time and
\* the volume of the message before it, if any.
KeyDownMsg(fp_contract, time, earlier) ==
    [ pc |-> "received", fp_contract |-> fp_contract, attack_time |-> time,
      volume |-> 0, earlier |-> earlier ]

InitVolume ==
    /\ g_sounds   = [i \in Sounds |-> LoadedSound(i)]
    /\ g_pedal_up = TRUE
    /\ disp       = Idle
    /\ last       = [ op |-> "main", sound |-> 0, before |-> "none" ]
    /\ rel_frames = [i \in Sounds |-> 0]
    /\ load       = Loaded
    /\ \E fp_contract \in BOOLEAN, time \in AttackTimeSamples :
          msg = KeyDownMsg(fp_contract, time, << >>)

\* volume = compute_volume(time), for the message received.
ComputeVolume ==
    /\ msg.pc = "received"
    /\ msg' = [msg EXCEPT !.pc = "computed",
                          !.volume = compute_volume_on(msg.fp_contract, msg.attack_time)]
    /\ UNCHANGED <<g_sounds, g_pedal_up, disp, last, rel_frames, load>>

\* The next key-down message arrives.
ReceiveKeyDown ==
    /\ msg.pc = "computed"
    /\ \E time \in AttackTimeSamples :
          msg' = KeyDownMsg(msg.fp_contract, time,
                            << [attack_time |-> msg.attack_time, volume |-> msg.volume] >>)
    /\ UNCHANGED <<g_sounds, g_pedal_up, disp, last, rel_frames, load>>

NextVolume ==
    \/ ComputeVolume
    \/ ReceiveKeyDown

SpecVolume == InitVolume /\ [][NextVolume]_vars

(***************************************************************************)
(* The key index of a message.  analyze_msg_received reads the address     *)
(* from two characters of the message and maps it with                     *)
(* arduino_to_piano_key_index; here the messages are analyzed one after    *)
(* the other and the address and index of the message before are kept.     *)
(***************************************************************************)
PEDAL_KEY_IDX == 85

\* The numbers sscanf("%d") reads from two characters.
TwoCharValues == -9 .. 99

\* key_index = temp_int: an int stored in a uint16_t.
to_uint16(temp_int) == temp_int % 65536

\* arduino_to_piano_key_index without the branch of the pedal.
arduino_to_piano_key_index_NoPedal(key_index_arduino) ==
    IF key_index_arduino = 6
    THEN 0
    ELSE (key_index_arduino + 1 - (key_index_arduino \div 7)) % 65536

arduino_to_piano_key_index(key_index_arduino) ==
    IF key_index_arduino = 6
    THEN 0
    ELSE IF key_index_arduino = 48
    THEN PEDAL_KEY_IDX
    ELSE (key_index_arduino + 1 - (key_index_arduino \div 7)) % 65536

\* A message "D..." or "U..." whose address has been read; `earlier` holds the
\* address and the index of the message before it, if any.
KeyMsg(msg_type, temp_int, earlier) ==
    [ pc |-> "received", msg_type |-> msg_type, key_index_arduino |-> to_uint16(temp_int),
      result |-> 0, key_index |-> 0, earlier |-> earlier ]

InitKeyIndex ==
    /\ g_sounds   = [i \in Sounds |-> LoadedSound(i)]
    /\ g_pedal_up = TRUE
    /\ disp       = Idle
    /\ last       = [ op |-> "main", sound |-> 0, before |-> "none" ]
    /\ rel_frames = [i \in Sounds |-> 0]
    /\ load       = Loaded
    /\ \E msg_type \in {"KEY_DOWN_MSG", "KEY_UP_MSG"}, temp_int \in TwoCharValues :
          msg = KeyMsg(msg_type, temp_int, << >>)

\* *p_key_index = arduino_to_piano_key_index(key_index); result stays 0, the
\* conversions of sscanf having succeeded.
analyze_msg_received ==
    /\ msg.pc = "received"
    /\ msg' = [msg EXCEPT !.pc = "analyzed",
                          !.key_index = arduino_to_piano_key_index(msg.key_index_arduino)]
    /\ UNCHANGED <<g_sounds, g_pedal_up, disp, last, rel_frames, load>>

\* The next message arrives.
receive_msg_on_uart ==
    /\ msg.pc = "analyzed"
    /\ \E msg_type \in {"KEY_DOWN_MSG", "KEY_UP_MSG"}, temp_int \in TwoCharValues :
          msg' = KeyMsg(msg_type, temp_int,
                        << [key_index_arduino |-> msg.key_index_arduino,
                            key_index |-> msg.key_index] >>)
    /\ UNCHANGED <<g_sounds, g_pedal_up, disp, last, rel_frames, load>>

NextKeyIndex ==
    \/ analyze_msg_received
    \/ receive_msg_on_uart

SpecKeyIndex == InitKeyIndex /\ [][NextKeyIndex]_vars

(***************************************************************************)
(* Loading at startup: load_special_sounds_wav_files_in_ram, then          *)
(* load_notes_wav_files_in_ram, one turn of their loops at a time, with    *)
(* wav files of any size on the SD card.                                   *)
(***************************************************************************)
\* The size of g_sample_data, in samples.
MAX_WAV_DATA_SIZE_WORD == 8

\* The numbers of bytes read_wav_file can return: 0 for a file that failed
\* to open, odd and even sizes up to a file longer than any the player is
\* run with.
WavDataSizes == 0 .. (2 * MaxNbSamples + 1)

\* A voice after initialize_global_variables.
InitialSound ==
    [ first_sample_pos |-> 0,
      last_sample_pos  |-> 0,
      nb_samples       |-> 0,
      playing          |-> FALSE,
      cur_playing_pos  |-> 0,
      key_up           |-> TRUE,
      key_up_pos       |-> 0,
      pedal_up_pos     |-> 0,
      volume           |-> 0,
      sound_end_soon   |-> FALSE ]

\* The fields a turn of the loop records, with last_sample_pos = nb_samples.
load_sound_LastFromZero(s, cur_pos, wav_data_size_bytes) ==
    [s EXCEPT !.first_sample_pos = cur_pos,
              !.nb_samples       = wav_data_size_bytes \div 2,
              !.last_sample_pos  = wav_data_size_bytes \div 2,
              !.cur_playing_pos  = cur_pos,
              !.key_up_pos       = cur_pos,
              !.pedal_up_pos     = cur_pos]

\* The fields a turn of either loop records for the sound loaded at cur_pos.
load_sound(s, cur_pos, wav_data_size_bytes) ==
    [s EXCEPT !.first_sample_pos = cur_pos,
              !.nb_samples       = wav_data_size_bytes \div 2,
              !.last_sample_pos  = cur_pos + wav_data_size_bytes \div 2,
              !.cur_playing_pos  = cur_pos,
              !.key_up_pos       = cur_pos,
              !.pedal_up_pos     = cur_pos]

\* The position of the loader: in the loop of the special sounds, in the loop
\* of the notes at file_idx = sound_idx - NB_SPECIAL_SOUNDS, or done.
Loading(pc, sound_idx, cur_pos, first_note_position, wav_data_size_bytes) ==
    [ pc |-> pc, sound_idx |-> sound_idx, cur_sound_pos |-> cur_pos,
      g_first_note_position |-> first_note_position,
      wav_data_size_bytes |-> wav_data_size_bytes ]

InitLoad ==
    /\ g_sounds   = [i \in Sounds |-> InitialSound]
    /\ g_pedal_up = TRUE
    /\ disp       = Idle
    /\ last       = [ op |-> "main", sound |-> 0, before |-> "none" ]
    /\ rel_frames = [i \in Sounds |-> 0]
    /\ msg        = NoMsg
    /\ load       = Loading("special", 0, 0, 0, 0)

\* One turn of the loop of load_special_sounds_wav_files_in_ram; after the
\* last one, g_first_note_position = cur_sound_pos and main goes on to the
\* notes.
load_special_sounds_wav_files_in_ram ==
    /\ load.pc = "special"
    /\ \E wav_data_size_bytes \in WavDataSizes :
          LET sound_idx == load.sound_idx
              loaded    == load_sound(g_sounds[sound_idx], load.cur_sound_pos,
                                      wav_data_size_bytes)
              next_pos  == load.cur_sound_pos + loaded.nb_samples
          IN  /\ g_sounds' = [g_sounds EXCEPT ![sound_idx] = loaded]
              /\ load' = IF sound_idx + 1 < NB_SPECIAL_SOUNDS
                         THEN Loading("special", sound_idx + 1, next_pos, 0,
                                      wav_data_size_bytes)
                         ELSE Loading("notes", sound_idx + 1, next_pos, next_pos,
                                      wav_data_size_bytes)
    /\ UNCHANGED <<g_pedal_up, disp, last, rel_frames, msg>>

\* One turn of the loop of load_notes_wav_files_in_ram.
load_notes_wav_files_in_ram ==
    /\ load.pc = "notes"
    /\ \E wav_data_size_bytes \in WavDataSizes :
          LET sound_idx == load.sound_idx
              loaded    == load_sound(g_sounds[sound_idx], load.cur_sound_pos,
                                      wav_data_size_bytes)
              next_pos  == load.cur_sound_pos + loaded.nb_samples
          IN  /\ g_sounds' = [g_sounds EXCEPT ![sound_idx] = loaded]
              /\ load' = Loading(IF sound_idx + 1 < NB_SOUNDS THEN "notes" ELSE "loaded",
                                 sound_idx + 1, next_pos, load.g_first_note_position,
                                 wav_data_size_bytes)
    /\ UNCHANGED <<g_pedal_up, disp, last, rel_frames, msg>>

NextLoad ==
    \/ load_special_sounds_wav_files_in_ram
    \/ load_notes_wav_files_in_ram

SpecLoad == InitLoad /\ [][NextLoad]_vars

(***************************************************************************)
(* Programming mode: a key-up message received with the programming        *)
(* button closed selects a program and reloads the notes.                  *)
(***************************************************************************)
SOUND_READY_IDX == 0

\* The last special sound (index 1 of 2 in the program).
SOUND_PROGRAM_CHARGING_IDX == NB_SPECIAL_SOUNDS - 1

\* Number of messages handled in programming mode in a run.
MaxProgrammings == 2

\* The wav data sizes of the files of a program: a file that fails to open, a
\* short file of odd size, the longest file.
ProgramDataSizes == {0, 3, 2 * MaxNbSamples}

\* pCurNote = &g_sounds[file_idx], without the offset of the special sounds.
note_sound_idx_NoOffset(file_idx) == file_idx

\* pCurNote = &g_sounds[NB_SPECIAL_SOUNDS + file_idx]
note_sound_idx(file_idx) == NB_SPECIAL_SOUNDS + file_idx

RECURSIVE load_notes_from(_, _, _, _)
\* The loop of load_notes_wav_files_in_ram from file_idx on, the files having
\* the sizes wav_data_sizes.
load_notes_from(snd, file_idx, cur_note_pos, wav_data_sizes) ==
    IF file_idx >= NB_KEYS
    THEN snd
    ELSE LET i      == note_sound_idx(file_idx)
             loaded == load_sound(snd[i], cur_note_pos, wav_data_sizes[file_idx])
         IN  load_notes_from([snd EXCEPT ![i] = loaded], file_idx + 1,
                             cur_note_pos + loaded.nb_samples, wav_data_sizes)

\* play_special_sound, as a function of the voice table.
special_sound_played(snd, sound_idx) ==
    [snd EXCEPT ![sound_idx] = TriggerWrites(NbTriggerWrites, snd[sound_idx], VolScale)]

\* The message handled in programming mode, and how many were before it.
ProgrammingMsg(msg_type, key_index, prog_index, count) ==
    [ pc |-> "programming", msg_type |-> msg_type, key_index |-> key_index,
      prog_index |-> prog_index, count |-> count ]

\* manage_msg_received_in_programming_mode: nothing for a key-down message;
\* for a key-up message the "program charging" sound, the notes of program
\* (key_index % 2) + 1 loaded from g_first_note_position, the "ready" sound.
manage_msg_received_in_programming_mode ==
    /\ load.pc = "loaded"
    /\ disp.pc = "idle"
    /\ LET count == IF msg.pc = "programming" THEN msg.count ELSE 0 IN
       /\ count < MaxProgrammings
       /\ \E msg_type \in {"KEY_DOWN_MSG", "KEY_UP_MSG"}, key_index \in Keys :
             /\ msg' = ProgrammingMsg(msg_type, key_index, (key_index % 2) + 1, count + 1)
             /\ IF msg_type = "KEY_UP_MSG"
                THEN \E wav_data_sizes \in [Keys -> ProgramDataSizes] :
                        g_sounds' = special_sound_played(
                                       load_notes_from(
                                          special_sound_played(g_sounds,
                                                               SOUND_PROGRAM_CHARGING_IDX),
                                          0, load.g_first_note_position, wav_data_sizes),
                                       SOUND_READY_IDX)
                ELSE g_sounds' = g_sounds
    /\ UNCHANGED <<g_pedal_up, disp, last, rel_frames, load>>

NextReload ==
    \/ load_special_sounds_wav_files_in_ram
    \/ load_notes_wav_files_in_ram
    \/ manage_msg_received_in_programming_mode

SpecReload == InitLoad /\ [][NextReload]_vars

(***************************************************************************)
(* The receive loop, character by character.  A character is a string of   *)
(* one letter, "CR" and "LF" for 0x0d and 0x0a, "NUL" for 0; "TIMEOUT" on  *)
(* the wire is a BlockingReceive that returns without a character.         *)
(***************************************************************************)
MAX_MESSAGE_SIZE == 20

DigitChars == <<"0", "1", "2", "3", "4", "5", "6", "7", "8", "9">>

IsDigit(c) == \E d \in 1 .. 10 : DigitChars[d] = c

DigitValue(c) == (CHOOSE d \in 1 .. 10 : DigitChars[d] = c) - 1

\* isspace
IsSpace(c) == c \in {" ", "CR", "LF"}

RECURSIVE SkipSpaces(_)
SkipSpaces(str) ==
    IF str # << >> /\ IsSpace(Head(str)) THEN SkipSpaces(Tail(str)) ELSE str

RECURSIVE ReadDigits(_, _)
ReadDigits(str, acc) ==
    IF str # << >> /\ IsDigit(Head(str))
    THEN ReadDigits(Tail(str), acc * 10 + DigitValue(Head(str)))
    ELSE acc

\* sscanf(str, "%d", &value): the number of conversions and the value.
sscanf_d(str) ==
    LET rest   == SkipSpaces(str)
        signed == rest # << >> /\ Head(rest) \in {"-", "+"}
        digits == IF signed THEN Tail(rest) ELSE rest
    IN  IF digits # << >> /\ IsDigit(Head(digits))
        THEN [ n |-> 1,
               value |-> IF signed /\ Head(rest) = "-"
                         THEN 0 - ReadDigits(digits, 0) ELSE ReadDigits(digits, 0) ]
        ELSE [ n |-> 0, value |-> 0 ]

\* The messages of the keyboard, as the Arduino prints them, and messages
\* that are not well formed.
MsgKeyDown  == <<"S", "D", " ", "6", " ", "1", "0", "0", "0", "0", "CR", "LF">>
MsgKeyUp    == <<"S", "U", " ", "6", "CR", "LF">>
MsgKeyUp1   == <<"LF", "S", "U", " ", "0", "CR", "LF">>
MsgPedalDown == <<"S", "D", " ", "4", "8", " ", "1", "0", "0", "0", "0", "0", "CR", "LF">>
MsgPedalUp  == <<"S", "U", " ", "4", "8", "CR", "LF">>
MsgUnknownLetter == <<"S", "X", " ", "6", "CR", "LF">>
MsgBadKey   == <<"S", "D", " ", "x", "x", " ", "1", "0", "0", "0", "0", "CR", "LF">>
MsgBadTime  == <<"S", "D", " ", "6", " ", "x", "CR", "LF">>
MsgNoTime   == <<"S", "D", " ", "6", "CR", "LF">>
MsgTimeout  == <<"S", "D", " ", "TIMEOUT">>
MsgTooLong  == <<"S">> \o [c \in 1 .. (MAX_MESSAGE_SIZE + 3) |-> "1"]

WireMessages ==
    { MsgKeyDown, MsgKeyUp, MsgKeyUp1, MsgPedalDown, MsgPedalUp, MsgUnknownLetter,
      MsgBadKey, MsgBadTime, MsgNoTime, MsgTimeout, MsgTooLong }

\* What the UART delivers in a run: two messages one after the other.
Wires == {first \o second : first \in WireMessages, second \in WireMessages \cup {<< >>}}

\* The receiver waiting for the start of a message.  msg_rec is the string in
\* the buffer (without its final 0), max_written the highest index of msg_rec
\* written so far; stale is what the uninitialized cells of temp_str hold.
Waiting(wire, stale, msg_rec, max_written) ==
    [ pc |-> "waiting", wire |-> wire, stale |-> stale, msg_rec |-> msg_rec,
      max_written |-> max_written, char_idx |-> 0, nb_received |-> 0, result |-> 0,
      msg_type |-> "none", key_index |-> 0, attack_time |-> 0 ]

InitUart ==
    /\ g_sounds   = [i \in Sounds |-> LoadedSound(i)]
    /\ g_pedal_up = TRUE
    /\ disp       = Idle
    /\ last       = [ op |-> "main", sound |-> 0, before |-> "none" ]
    /\ rel_frames = [i \in Sounds |-> 0]
    /\ load       = Loaded
    /\ \E wire \in Wires, stale \in {"0", "x"} : msg = Waiting(wire, stale, << >>, -1)

\* receive_msg_on_uart, first loop: one BlockingReceive; 'S' starts a message.
wait_for_start ==
    /\ msg.pc = "waiting"
    /\ msg.wire # << >>
    /\ msg' = [msg EXCEPT !.wire = Tail(msg.wire),
                          !.pc = IF Head(msg.wire) = "S" THEN "receiving" ELSE "waiting",
                          !.char_idx = 0, !.nb_received = 0, !.result = 0]
    /\ UNCHANGED <<g_sounds, g_pedal_up, disp, last, rel_frames, load>>

\* The return of receive_msg_on_uart: the result and the final 0.
receive_return(m, uart_ok) ==
    [m EXCEPT !.pc = "received",
              !.result = IF m.char_idx >= MAX_MESSAGE_SIZE \/ ~uart_ok THEN -1 ELSE 0,
              !.msg_rec = SubSeq(m.msg_rec, 1, m.char_idx),
              !.max_written = IF m.char_idx > m.max_written THEN m.char_idx
                              ELSE m.max_written]

\* msg_rec[char_idx] = char_rec; if (char_idx < MAX_MESSAGE_SIZE) char_idx++;
\* for the character at the head of the wire.
char_stored(m) ==
    [m EXCEPT !.wire = Tail(m.wire),
              !.nb_received = m.nb_received + 1,
              !.msg_rec = SubSeq(m.msg_rec, 1, m.char_idx) \o <<Head(m.wire)>>,
              !.max_written = IF m.char_idx > m.max_written THEN m.char_idx
                              ELSE m.max_written,
              !.char_idx = IF m.char_idx < MAX_MESSAGE_SIZE THEN m.char_idx + 1
                           ELSE m.char_idx]

\* receive_msg_on_uart, one turn of the second loop: a character within one
\* second or a timeout; the function returns on a timeout, on a character
\* received with char_idx at MAX_MESSAGE_SIZE, and after 0x0a.
receive_char ==
    /\ msg.pc = "receiving"
    /\ LET timeout == msg.wire = << >> \/ Head(msg.wire) = "TIMEOUT" IN
       msg' = IF timeout
              THEN receive_return([msg EXCEPT !.wire = IF msg.wire = << >> THEN << >>
                                                       ELSE Tail(msg.wire)], FALSE)
              ELSE IF msg.char_idx >= MAX_MESSAGE_SIZE \/ Head(msg.wire) = "LF"
              THEN receive_return(char_stored(msg), TRUE)
              ELSE char_stored(msg)
    /\ UNCHANGED <<g_sounds, g_pedal_up, disp, last, rel_frames, load>>

\* strncpy(dst, src, n) on an array of MAX_MESSAGE_SIZE characters: the
\* first n characters of the string src, then 0 up to n.
strncpy(dst, src, n) ==
    [c \in 0 .. (MAX_MESSAGE_SIZE - 1) |->
        IF c >= n THEN dst[c]
        ELSE IF c < Len(src) THEN src[c + 1] ELSE "NUL"]

RECURSIVE c_string(_, _)
\* The string an array holds from index c: up to its first 0.
c_string(array, c) ==
    IF c >= MAX_MESSAGE_SIZE \/ array[c] = "NUL" THEN << >>
    ELSE <<array[c]>> \o c_string(array, c + 1)

\* analyze_msg_received on the message m.msg_rec.  junk is what the
\* variables sscanf did not set hold.  In a 'D' message the time is copied
\* with strncpy(temp_str, &msg_rec[4], msg_len - 4): a negative length is a
\* huge size_t and the copy runs over the stack and the memory behind it,
\* which ends the program in a fault; the cells of temp_str between the
\* copied characters and temp_str[msg_len] = 0 are never written.
analyze(m, junk) ==
    LET str      == m.msg_rec
        len      == Len(str)
        msg_len  == (len - 2) % 256
        from(k)  == IF k < len THEN SubSeq(str, k + 1, len) ELSE << >>
        temp_0   == [c \in 0 .. (MAX_MESSAGE_SIZE - 1) |-> m.stale]
        temp_1   == [strncpy(temp_0, from(2), 2) EXCEPT ![2] = "NUL"]
        key      == sscanf_d(c_string(temp_1, 0))
        temp_int == IF key.n = 1 THEN key.value ELSE junk
        index    == arduino_to_piano_key_index(to_uint16(temp_int))
        n        == msg_len - 4
        temp_2   == [strncpy(temp_1, from(4), n) EXCEPT ![msg_len] = "NUL"]
        time     == sscanf_d(c_string(temp_2, 0))
    IN  IF len > 0 /\ str[1] = "D"
        THEN IF n < 0 \/ n > MAX_MESSAGE_SIZE \/ msg_len >= MAX_MESSAGE_SIZE
             THEN [m EXCEPT !.pc = "fault", !.msg_type = "KEY_DOWN_MSG",
                            !.key_index = index]
             ELSE [m EXCEPT !.pc = "analyzed", !.msg_type = "KEY_DOWN_MSG",
                            !.key_index = index,
                            !.attack_time = IF time.n = 1 THEN time.value ELSE junk % 2,
                            !.result = IF key.n = 1 /\ time.n = 1 THEN 0 ELSE -1]
        ELSE IF len > 0 /\ str[1] = "U"
        THEN [m EXCEPT !.pc = "analyzed", !.msg_type = "KEY_UP_MSG",
                       !.key_index = index,
                       !.result = IF key.n = 1 THEN 0 ELSE -1]
        ELSE [m EXCEPT !.pc = "analyzed", !.result = -1]

\* result = analyze_msg_received(...), for a message received without error.
analyze_msg ==
    /\ msg.pc = "received"
    /\ msg.result = 0
    /\ \E junk \in {0, -1} : msg' = analyze(msg, junk)
    /\ UNCHANGED <<g_sounds, g_pedal_up, disp, last, rel_frames, load>>

\* compute_volume for the times of the messages; above LongestAttackTime the
\* sum of compute_volume is below zero and the lower clamp applies.
volume_of_msg(attack_time) ==
    IF attack_time > LongestAttackTime THEN MIN_GAIN ELSE compute_volume(attack_time)

\* manage_msg_received with the programming button open:
\* manage_msg_received_in_normal_mode.
manage_msg_received ==
    /\ msg.pc = "analyzed"
    /\ msg.result = 0
    /\ msg.key_index \in Keys \cup {PEDAL_KEY_IDX}
    /\ LET i == NB_SPECIAL_SOUNDS + msg.key_index IN
       IF msg.key_index # PEDAL_KEY_IDX
       THEN /\ g_sounds' = [g_sounds EXCEPT ![i] =
                               IF msg.msg_type = "KEY_DOWN_MSG"
                               THEN TriggerWrites(NbTriggerWrites, g_sounds[i],
                                                  volume_of_msg(msg.attack_time))
                               ELSE KeyUpWrites(g_sounds[i])]
            /\ g_pedal_up' = g_pedal_up
       ELSE /\ g_sounds' = [s \in Sounds |->
                               IF s \notin NoteSounds THEN g_sounds[s]
                               ELSE IF msg.msg_type = "KEY_DOWN_MSG"
                               THEN PedalDownWrite(g_sounds[s])
                               ELSE PedalUpWrite(g_sounds[s])]
            /\ g_pedal_up' = (msg.msg_type = "KEY_UP_MSG")
    /\ msg' = Waiting(msg.wire, msg.stale, msg.msg_rec, msg.max_written)
    /\ UNCHANGED <<disp, last, rel_frames, load>>

\* The loop of play_notes_received_from_arduino goes round without calling
\* manage_msg_received: receive_msg_on_uart or analyze_msg_received returned
\* an error.
discard_msg ==
    /\ msg.pc \in {"received", "analyzed"}
    /\ msg.result # 0
    /\ msg' = Waiting(msg.wire, msg.stale, msg.msg_rec, msg.max_written)
    /\ UNCHANGED <<g_sounds, g_pedal_up, disp, last, rel_frames, load>>

NextUart ==
    \/ wait_for_start
    \/ receive_char
    \/ analyze_msg
    \/ manage_msg_received
    \/ discard_msg

SpecUart == InitUart /\ [][NextUart]_vars

(***************************************************************************)
(* receive_msg_on_uart as the first version of the player has it (and the  *)
(* standalone receiver): BlockingReceive without a timeout, and a loop     *)
(* that goes on while the last character is not 0x0a or char_idx is        *)
(* MAX_MESSAGE_SIZE.                                                       *)
(***************************************************************************)
\* One turn of the second loop: BlockingReceive returns a character or
\* nothing; the loop is left after 0x0a unless char_idx is MAX_MESSAGE_SIZE.
receive_char_first ==
    /\ msg.pc = "receiving"
    /\ msg.wire # << >>
    /\ msg' = IF Head(msg.wire) = "TIMEOUT"
              THEN [msg EXCEPT !.wire = Tail(msg.wire)]
              ELSE IF Head(msg.wire) = "LF" /\ char_stored(msg).char_idx # MAX_MESSAGE_SIZE
              THEN receive_return(char_stored(msg), TRUE)
              ELSE char_stored(msg)
    /\ UNCHANGED <<g_sounds, g_pedal_up, disp, last, rel_frames, load>>

\* The caller's loop goes round and calls receive_msg_on_uart again.
receive_again ==
    /\ msg.pc = "received"
    /\ msg' = Waiting(msg.wire, msg.stale, msg.msg_rec, msg.max_written)
    /\ UNCHANGED <<g_sounds, g_pedal_up, disp, last, rel_frames, load>>

NextUartFirst ==
    \/ wait_for_start
    \/ receive_char_first
    \/ receive_again

SpecUartFirst == InitUart /\ [][NextUartFirst]_vars

(***************************************************************************)
(* The MIDI driver: play_midi_file_from_ram over a file in RAM.  A file is *)
(* a sequence of bytes; the bytes of g_midi_file_data after the file are   *)
(* zero.                                                                   *)
(***************************************************************************)
PLAY_ALL_TRACKS == 65535

\* g_midi_file_data[at], at counted from 0.
Byte(file, at) == IF at < Len(file) THEN file[at + 1] ELSE 0

\* "MThd" and "MTrk".
MThd == <<77, 84, 104, 100>>

MTrk == <<77, 84, 114, 107>>

\* memcmp(&g_midi_file_data[at], tag, 4) == 0.
HasTag(file, at, tag) == \A k \in 1 .. 4 : Byte(file, at + k - 1) = tag[k]

u32_from_bytes_big(file, at) ==
    ((Byte(file, at) * 256 + Byte(file, at + 1)) * 256 + Byte(file, at + 2)) * 256
        + Byte(file, at + 3)

RECURSIVE var_length_from(_, _, _, _)
\* The loop of midi_decode_var_length_param from its k-th turn; len stays 0
\* when none of the four bytes is a last byte.
var_length_from(file, at, k, ret_value) ==
    IF k = 4 THEN [value |-> ret_value, len |-> 0]
    ELSE LET data == Byte(file, at + k)
             v    == ret_value * 128 + (data % 128)
         IN  IF data < 128 THEN [value |-> v, len |-> k + 1]
             ELSE var_length_from(file, at, k + 1, v)

midi_decode_var_length_param(file, at) == var_length_from(file, at, 0, 0)

\* The events of the sample tracks, each with a delta-time of 0 ticks.
\* Note-On, key 25, velocity 127.
EvNoteOn == <<0, 144, 25, 127>>

\* Note-On, key 25, velocity 0.
EvNoteOnZero == <<0, 144, 25, 0>>

\* Note-Off, key 25.
EvNoteOff == <<0, 128, 25, 64>>

\* Two data bytes under the running status: key 26, velocity 80.
EvRunning == <<0, 26, 80>>

\* Meta event 3 (track name) of one byte.
EvMeta == <<0, 255, 3, 1, 65>>

\* System-exclusive event of two bytes, the end mark included.
EvSysEx == <<0, 240, 2, 26, 247>>

\* Control change and program change.
EvCtrl == <<0, 176, 7, 100>>

EvProg == <<0, 192, 5>>

\* A delta-time written on four bytes that all have their msb set, then a
\* Note-On.
EvLongDelta == <<129, 128, 128, 128, 0, 144, 25, 127>>

\* Four bytes 0xF8 (the real-time message "timing clock").
EvRealTime == <<248, 248, 248, 248>>

MidiEvents ==
    {EvNoteOn, EvNoteOnZero, EvNoteOff, EvRunning, EvMeta, EvSysEx, EvCtrl, EvProg,
     EvLongDelta, EvRealTime}

MidiHeader(nb_tracks) == MThd \o <<0, 0, 0, 6, 0, 1, 0, nb_tracks, 0, 96>>

MidiTrack(events) == MTrk \o <<0, 0, 0, Len(events)>> \o events

\* The files of the SD card: one track of two events, two tracks, or a file
\* that is not a MIDI file.
MidiFiles ==
    {MidiHeader(1) \o MidiTrack(e1 \o e2) : e1 \in MidiEvents, e2 \in MidiEvents}
    \cup {MidiHeader(2) \o MidiTrack(t1) \o MidiTrack(t2) :
             t1 \in {EvNoteOn \o EvRunning, EvMeta \o EvNoteOn},
             t2 \in {EvNoteOn \o EvNoteOff, EvRunning \o EvNoteOnZero}}
    \cup {<<82, 73, 70, 70>>}

\* The arguments of play_midi_file_from_ram.
NbTracksToPlay == {0, 1, PLAY_ALL_TRACKS}

NbNotesToPlay == {0, 1, 2, PLAY_ALL_TRACKS}

\* key_idx of a Note-On: shift_notes (24) down, capped, one down.
midi_key_idx(data_byte_1) ==
    LET shifted == IF data_byte_1 >= 24 THEN data_byte_1 - 24 ELSE data_byte_1
        capped  == IF shifted >= NB_KEYS THEN NB_KEYS ELSE shifted
    IN  IF capped > 0 THEN capped - 1 ELSE capped

\* velocity / 80.0 passed as the float amplification of
\* start_playing_a_note, in units of 2^-28.
midi_amplification(velocity) ==
    LET unit == VolScale \div 16
        n    == (velocity % 5) * unit
        a    == (velocity \div 5) * unit + n \div 5
    IN  RoundF32([a |-> a, b |-> ((n % 5) * 4096) \div 5]).a

\* nb_data_bytes of a command.
nb_data_bytes_of(status_msb) ==
    IF status_msb \in {128, 144, 160, 176, 224} THEN 2
    ELSE IF status_msb \in {192, 208} THEN 1
    ELSE 0

\* The event at idx1, after its delta-time: the index after it, the running
\* status after it and the call it makes.
midi_parse(file, idx1, running_status) ==
    LET data == Byte(file, idx1) IN
    IF data = 255
    THEN LET v_length == midi_decode_var_length_param(file, idx1 + 2)
         IN  [ idx |-> idx1 + 2 + v_length.len + v_length.value,
               running_status |-> running_status, status_msb |-> 255,
               call |-> "none", key_idx |-> 0, velocity |-> 0 ]
    ELSE IF data >= 240 /\ data <= 247
    THEN [ idx |-> idx1 + 1, running_status |-> running_status,
           status_msb |-> 240, call |-> "none", key_idx |-> 0, velocity |-> 0 ]
    ELSE LET msb        == (data \div 16) * 16
             has_status == msb >= 128 /\ msb <= 224
             status_msb == IF has_status THEN msb ELSE running_status
             idx2       == IF has_status THEN idx1 + 1 ELSE idx1
             data_byte_1 == Byte(file, idx2)
             data_byte_2 == Byte(file, idx2 + 1)
         IN  [ idx |-> idx2 + nb_data_bytes_of(status_msb),
               running_status |-> status_msb, status_msb |-> status_msb,
               call |-> IF status_msb # 144 THEN "none"
                        ELSE IF data_byte_2 # 0 THEN "start" ELSE "stop",
               key_idx |-> midi_key_idx(data_byte_1), velocity |-> data_byte_2 ]

\* play_midi_file_from_ram at pc; at is the index of the event parsed last,
\* event what was parsed there, notes_started the calls of
\* start_playing_a_note so far and tracks_parsed the tracks whose events
\* were parsed.
Midi(pc, file, nb_tracks_to_play, nb_notes_to_play) ==
    [ pc |-> pc, file |-> file, nb_tracks_to_play |-> nb_tracks_to_play,
      nb_notes_to_play |-> nb_notes_to_play, idx |-> 0, track_len |-> 0,
      start_track_idx |-> 0, running_status |-> 0, note_counter |-> 0,
      track_counter |-> 0, at |-> 0,
      event |-> [ idx |-> 0, running_status |-> 0, status_msb |-> 0,
                  call |-> "none", key_idx |-> 0, velocity |-> 0 ],
      notes_started |-> 0, tracks_parsed |-> 0 ]

InitMidi ==
    /\ g_sounds   = [i \in Sounds |-> LoadedSound(i)]
    /\ g_pedal_up = TRUE
    /\ disp       = Idle
    /\ last       = [ op |-> "main", sound |-> 0, before |-> "none" ]
    /\ rel_frames = [i \in Sounds |-> 0]
    /\ \E file \in MidiFiles, nb_tracks_to_play \in NbTracksToPlay,
          nb_notes_to_play \in NbNotesToPlay :
          msg = Midi("midi_header", file, nb_tracks_to_play, nb_notes_to_play)
    /\ load       = Loaded

\* The header: "MThd" and a length of 6, or the function returns.
midi_header ==
    /\ msg.pc = "midi_header"
    /\ msg' = IF ~HasTag(msg.file, 0, MThd) \/ u32_from_bytes_big(msg.file, 4) # 6
              THEN [msg EXCEPT !.pc = "midi_done"]
              ELSE [msg EXCEPT !.pc = "midi_tracks", !.idx = 14]
    /\ UNCHANGED <<g_sounds, g_pedal_up, disp, last, rel_frames, load>>

\* One turn of the loop over the tracks, up to the loop over the events.
midi_track ==
    LET stop_playing == msg.track_counter > msg.nb_tracks_to_play IN
    /\ msg.pc = "midi_tracks"
    /\ msg' = IF ~HasTag(msg.file, msg.idx, MTrk)
              THEN [msg EXCEPT !.pc = "midi_done"]
              ELSE [msg EXCEPT
                      !.pc = IF stop_playing THEN "midi_done" ELSE "midi_events",
                      !.idx = msg.idx + 8,
                      !.track_len = u32_from_bytes_big(msg.file, msg.idx + 4),
                      !.start_track_idx = msg.idx + 8,
                      !.note_counter = 0,
                      !.tracks_parsed = IF stop_playing THEN @ ELSE @ + 1]
    /\ UNCHANGED <<g_sounds, g_pedal_up, disp, last, rel_frames, load>>

\* One turn of the loop over the events of a track: the test of the number
\* of notes, the delta-time, the event and the test of the end of the track.
midi_event ==
    LET stop_playing == msg.note_counter >= msg.nb_notes_to_play
        v_time == midi_decode_var_length_param(msg.file, msg.idx)
        idx1   == msg.idx + v_time.len
        ev     == midi_parse(msg.file, idx1, msg.running_status)
        end_of_track == ev.idx - msg.start_track_idx >= msg.track_len
        i      == NB_SPECIAL_SOUNDS + ev.key_idx
    IN
    /\ msg.pc = "midi_events"
    /\ msg' = [msg EXCEPT
                 !.pc = IF end_of_track
                        THEN (IF stop_playing THEN "midi_done" ELSE "midi_tracks")
                        ELSE (IF stop_playing THEN "midi_done" ELSE "midi_events"),
                 !.idx = ev.idx,
                 !.running_status = ev.running_status,
                 !.note_counter = IF ev.call = "start" THEN @ + 1 ELSE @,
                 !.track_counter = IF end_of_track THEN @ + 1 ELSE @,
                 !.at = idx1,
                 !.event = ev,
                 !.notes_started = IF ev.call = "start" THEN @ + 1 ELSE @]
    /\ g_sounds' =
          CASE ev.call = "start" ->
                 [g_sounds EXCEPT
                    ![i] = TriggerWrites(NbTriggerWrites, g_sounds[i],
                                         midi_amplification(ev.velocity))]
            [] ev.call = "stop" ->
                 [g_sounds EXCEPT ![i] = KeyUpWrites(g_sounds[i])]
            [] OTHER -> g_sounds
    /\ last' =
          CASE ev.call = "start" ->
                 [ op |-> "start_playing_a_note", sound |-> i,
                   before |-> Phase(g_sounds[i], g_pedal_up) ]
            [] ev.call = "stop" ->
                 [ op |-> "stop_playing_a_note", sound |-> i, before |-> "none" ]
            [] OTHER -> last
    /\ EventFrames(IF ev.call = "none" THEN {} ELSE {i})
    /\ UNCHANGED <<g_pedal_up, disp, load>>

NextMidi ==
    \/ midi_header
    \/ midi_track
    \/ midi_event

SpecMidi == InitMidi /\ [][NextMidi]_vars

(***************************************************************************)
(* The float arithmetic of the callback.  A float is [neg, m, e], of value *)
(* m * 2^e (negated when neg), kept with m odd and below 2^24, or 0 with   *)
(* e = 0: two floats are equal exactly when their values are.  The sign of *)
(* a zero is not kept.  Products, quotients and sums round to the nearest  *)
(* float, ties to even; exponents stay well inside the range of a float.   *)
(***************************************************************************)
RECURSIVE F32(_, _, _)
\* The float of value m * 2^e, m >= 0 of at most 24 significant digits.
F32(neg, m, e) ==
    IF m = 0 THEN [neg |-> FALSE, m |-> 0, e |-> 0]
    ELSE IF m % 2 = 0 THEN F32(neg, m \div 2, e + 1)
    ELSE [neg |-> neg, m |-> m, e |-> e]

\* The nearest float of q * 2^e plus, when sticky, a non-zero part below the
\* last digit of q.
RoundTo24(neg, q, sticky, e) ==
    LET len == BitLen(q) IN
    IF len <= 24 THEN F32(neg, q, e)
    ELSE LET s    == len - 24
             kept == q \div Pow2(s)
             up   == RoundsUp(kept % 2 = 1, q % Pow2(s), sticky, s)
         IN  F32(neg, IF up THEN kept + 1 ELSE kept, e + s)

\* (float)n of an integer n.
FromInt(n) == IF n < 0 THEN RoundTo24(TRUE, -n, FALSE, 0) ELSE RoundTo24(FALSE, n, FALSE, 0)

\* x * y: the 48-digit product H * 2^24 + L from the halves of the factors.
fmul(x, y) ==
    LET xh   == x.m \div 4096
        xl   == x.m % 4096
        yh   == y.m \div 4096
        yl   == y.m % 4096
        mid  == xh * yl + xl * yh
        low  == (mid % 4096) * 4096 + xl * yl
        L    == low % 16777216
        H    == xh * yh + mid \div 4096 + low \div 16777216
        neg  == x.neg # y.neg
        e    == x.e + y.e
        len  == BitLen(H)
    IN  IF H = 0 THEN F32(neg, L, e)
        ELSE LET kept == H * Pow2(24 - len) + L \div Pow2(len)
                 up   == RoundsUp(kept % 2 = 1, L % Pow2(len), FALSE, len)
             IN  F32(neg, IF up THEN kept + 1 ELSE kept, e + len)

RECURSIVE DivBits(_, _, _, _)
\* Long division: n more binary digits of the quotient q, of remainder rem
\* by d, until it has 26 digits or the division is exact.
DivBits(q, rem, d, n) ==
    IF rem = 0 \/ BitLen(q) >= 26 THEN [q |-> q, rem |-> rem, n |-> n]
    ELSE IF 2 * rem >= d THEN DivBits(2 * q + 1, 2 * rem - d, d, n + 1)
    ELSE DivBits(2 * q, 2 * rem, d, n + 1)

\* x / y, y not 0.
fdiv(x, y) ==
    LET r == DivBits(x.m \div y.m, x.m % y.m, y.m, 0)
    IN  RoundTo24(x.neg # y.neg, r.q, r.rem # 0, x.e - y.e - r.n)

\* x with 24 digits and three more: m * 2^e = x, 2^26 <= m < 2^27.
Wide(x) ==
    LET up == 27 - BitLen(x.m) IN [neg |-> x.neg, m |-> x.m * Pow2(up), e |-> x.e - up]

\* x + y: the smaller term is shifted under the larger one, what is shifted
\* out kept as a last digit of 1.
fadd(x, y) ==
    IF x.m = 0 THEN y
    ELSE IF y.m = 0 THEN x
    ELSE LET wx == Wide(x)
             wy == Wide(y)
             a  == IF wx.e >= wy.e THEN wx ELSE wy
             b  == IF wx.e >= wy.e THEN wy ELSE wx
             d  == a.e - b.e
             cut == IF d >= 27 THEN 0 ELSE b.m \div Pow2(d)
             B  == IF d >= 27 THEN 1
                   ELSE IF b.m % Pow2(d) # 0 /\ cut % 2 = 0 THEN cut + 1
                   ELSE cut
         IN  IF a.neg = b.neg THEN RoundTo24(a.neg, a.m + B, FALSE, b.e + d)
             ELSE IF a.m >= B THEN RoundTo24(a.neg, a.m - B, FALSE, b.e + d)
             ELSE RoundTo24(b.neg, B - a.m, FALSE, b.e + d)

fneg(x) == IF x.m = 0 THEN x ELSE [x EXCEPT !.neg = ~x.neg]

\* x <= y.
fle(x, y) == LET d == fadd(x, fneg(y)) IN d.m = 0 \/ d.neg

\* s162f of libDaisy: an int16 over 32768.
s162f(x) == IF x < 0 THEN F32(TRUE, -x, -15) ELSE F32(FALSE, x, -15)

\* The float of a volume of the model (units of 2^-28).
FloatOfVolume(volume) == F32(FALSE, volume, -28)

FloatZero == F32(FALSE, 0, 0)

FloatOne == F32(FALSE, 1, 0)

(***************************************************************************)
(* The signal of the callback: what one voice adds to sig_float in a       *)
(* frame, and the loop that sums the voices.                               *)
(***************************************************************************)
MAX_NB_SIMULTANEOUS_NOTES == 10

\* Number of samples of the attack ramp.
WAV_ENV_START_NB_SAMPLES == 2

\* note_sig_int16 without the polyphony factor.
polyphony_div_None(sample) == sample

\* note_sig_int16 = g_sample_data[..] / MAX_NB_SIMULTANEOUS_NOTES: the
\* division of two ints, towards zero.
polyphony_div(sample) ==
    IF sample < 0 THEN -((-sample) \div MAX_NB_SIMULTANEOUS_NOTES)
    ELSE sample \div MAX_NB_SIMULTANEOUS_NOTES

\* attack_factor without the ramp.
attack_factor_None(s) == FloatOne

\* The attack factor, 1 after the ramp (no product is made there).
attack_factor(s) ==
    LET played == size_t_sub(s.cur_playing_pos, s.first_sample_pos) IN
    IF played < WAV_ENV_START_NB_SAMPLES
    THEN fdiv(FromInt(played), FromInt(WAV_ENV_START_NB_SAMPLES))
    ELSE FloatOne

\* The release factor of a voice after the test of the end of the sound, 1
\* outside the release (no product is made there).
release_factor_float(s, pedal_up) ==
    IF ~InRelease(s, pedal_up) THEN FloatOne
    ELSE IF ReleaseEnded(s) THEN FloatZero
    ELSE fdiv(FromInt(release_factor(s, pedal_up)), FromInt(WAV_ENV_END_NB_SAMPLES))

\* note_sig_float of a playing voice whose sample at cur_playing_pos is
\* `sample`, as it is added to sig_float.
note_sig_float(s, pedal_up, sample) ==
    fmul(fmul(fmul(s162f(polyphony_div(sample)), FloatOfVolume(s.volume)),
              attack_factor(s)),
         release_factor_float(EndSoon(s), pedal_up))

\* The voices and samples summed in the specification of the mix: the two
\* ends of an int16 at full volume, inside and after the attack ramp, the
\* largest sample at the lowest volume of the keyboard, and a sample that
\* the division brings to 0.
MixVoice(volume, played) ==
    LET s == LoadedSound(NB_SPECIAL_SOUNDS) IN
    [s EXCEPT !.playing = TRUE, !.volume = volume,
              !.cur_playing_pos = s.first_sample_pos + played]

MixInputs ==
    { [sample |-> 32767,  s |-> MixVoice(VolScale, WAV_ENV_START_NB_SAMPLES)],
      [sample |-> -32768, s |-> MixVoice(VolScale, WAV_ENV_START_NB_SAMPLES)],
      [sample |-> 32767,  s |-> MixVoice(VolScale, 1)],
      [sample |-> -32768, s |-> MixVoice(VolScale, 1)],
      [sample |-> 32767,  s |-> MixVoice(MIN_GAIN, WAV_ENV_START_NB_SAMPLES)],
      [sample |-> -9,     s |-> MixVoice(VolScale, WAV_ENV_START_NB_SAMPLES)] }

\* The loop over the sounds of one frame: nb_playing voices added so far to
\* sig_float; at pc "out" the signal has been written to the output buffer.
Mixing(pc, nb_playing, sig_float) ==
    [ pc |-> pc, nb_playing |-> nb_playing, sig_float |-> sig_float ]

InitMix ==
    /\ g_sounds   = [i \in Sounds |-> LoadedSound(i)]
    /\ g_pedal_up = TRUE
    /\ disp       = Idle
    /\ last       = [ op |-> "main", sound |-> 0, before |-> "none" ]
    /\ rel_frames = [i \in Sounds |-> 0]
    /\ msg        = Mixing("mix", 0, FloatZero)
    /\ load       = Loaded

\* One playing voice of the loop: sig_float += note_sig_float.
mix_sound ==
    /\ msg.pc = "mix"
    /\ msg.nb_playing < MAX_NB_SIMULTANEOUS_NOTES
    /\ \E in \in MixInputs, pedal_up \in BOOLEAN :
          msg' = Mixing("mix", msg.nb_playing + 1,
                        fadd(msg.sig_float, note_sig_float(in.s, pedal_up, in.sample)))
    /\ UNCHANGED <<g_sounds, g_pedal_up, disp, last, rel_frames, load>>

\* The end of the loop: out[block_idx] = sig_float.
mix_out ==
    /\ msg.pc = "mix"
    /\ msg' = Mixing("out", msg.nb_playing, msg.sig_float)
    /\ UNCHANGED <<g_sounds, g_pedal_up, disp, last, rel_frames, load>>

NextMix ==
    \/ mix_sound
    \/ mix_out

SpecMix == InitMix /\ [][NextMix]_vars

(***************************************************************************)
(* Playing: the notes loaded from files of chosen sizes, the keys of the   *)
(* keyboard and the frames of the callback with the signal of each voice.  *)
(***************************************************************************)
\* The wav data sizes of the note files: a file that failed to load, a file
\* of the length of a release, the longest file.
PlayDataSizes == {0, 2 * WAV_ENV_END_NB_SAMPLES, 2 * MaxNbSamples}

\* The contents of g_sample_data, the same at every position, also after
\* the last sample loaded.
SampleData == {32767, -32768}

\* The attack time of the keys played (the slowest: a volume of all 24
\* digits).
PlayAttackTimes == {MAX_ATTACK_TIME}

\* Frames counted for a voice: one more than any sound needs to end.
MaxFrames == MaxNbSamples + 2

\* sample is the content of g_sample_data; note_sig[i] is what sound i added
\* to sig_float in the last frame, frames[i] the frames that processed sound
\* i as playing since its last trigger, and held[i] tells that the sound was
\* triggered when it was not playing and got no event since.
Playing(sample, note_sig, frames, held) ==
    [ pc |-> "play", sample |-> sample, note_sig |-> note_sig, frames |-> frames,
      held |-> held ]

InitPlay ==
    /\ \E wav_data_sizes \in [Keys -> PlayDataSizes] :
          g_sounds = load_notes_from([i \in Sounds |-> LoadedSound(i)], 0,
                                     LoadedSound(NB_SPECIAL_SOUNDS).first_sample_pos,
                                     wav_data_sizes)
    /\ g_pedal_up \in BOOLEAN
    /\ disp       = Idle
    /\ last       = [ op |-> "main", sound |-> 0, before |-> "none" ]
    /\ rel_frames = [i \in Sounds |-> 0]
    /\ \E sample \in SampleData :
          msg = Playing(sample, [i \in Sounds |-> FloatZero], [i \in Sounds |-> 0],
                        [i \in Sounds |-> FALSE])
    /\ load       = Loaded

\* KEY_DOWN of manage_msg_received_in_normal_mode.
play_key_down(key_index, attack_time) ==
    LET i == NB_SPECIAL_SOUNDS + key_index IN
    /\ msg.pc = "play"
    /\ g_sounds' = [g_sounds EXCEPT
                      ![i] = TriggerWrites(NbTriggerWrites, g_sounds[i],
                                           compute_volume(attack_time))]
    /\ msg' = [msg EXCEPT !.frames[i] = 0, !.held[i] = ~g_sounds[i].playing]
    /\ last' = [ op |-> "KeyDown", sound |-> i,
                 before |-> Phase(g_sounds[i], g_pedal_up) ]
    /\ UNCHANGED <<g_pedal_up, disp, rel_frames, load>>

\* KEY_UP of manage_msg_received_in_normal_mode.
play_key_up(key_index) ==
    LET i == NB_SPECIAL_SOUNDS + key_index IN
    /\ msg.pc = "play"
    /\ g_sounds' = [g_sounds EXCEPT ![i] = KeyUpWrites(g_sounds[i])]
    /\ msg' = [msg EXCEPT !.held[i] = FALSE]
    /\ last' = [ op |-> "KeyUp", sound |-> i, before |-> "none" ]
    /\ UNCHANGED <<g_pedal_up, disp, rel_frames, load>>

\* One frame of the callback, with the signal of each sound.
play_frame ==
    /\ msg.pc = "play"
    /\ g_sounds' = [i \in Sounds |-> FrameVoice(g_sounds[i], g_pedal_up)]
    /\ msg' = [msg EXCEPT
                 !.note_sig = [i \in Sounds |->
                                 IF g_sounds[i].playing
                                 THEN note_sig_float(g_sounds[i], g_pedal_up, msg.sample)
                                 ELSE FloatZero],
                 !.frames = [i \in Sounds |->
                               IF g_sounds[i].playing /\ msg.frames[i] < MaxFrames
                               THEN msg.frames[i] + 1
                               ELSE msg.frames[i]]]
    /\ last' = [ op |-> "Frame", sound |-> 0, before |-> "none" ]
    /\ UNCHANGED <<g_pedal_up, disp, rel_frames, load>>

NextPlay ==
    \/ \E key_index \in Keys, attack_time \in PlayAttackTimes :
          play_key_down(key_index, attack_time)
    \/ \E key_index \in Keys : play_key_up(key_index)
    \/ play_frame

SpecPlay == InitPlay /\ [][NextPlay]_vars

(***************************************************************************)
(* The voice table of the program, g_sounds[NB_SOUNDS], at its real size:  *)
(* manage_msg_received_in_normal_mode takes the entry                      *)
(* NB_SPECIAL_SOUNDS + key_index of it for every key_index that is not the *)
(* pedal's.                                                                *)
(***************************************************************************)
PianoNbKeys == 85

PianoNbSpecialSounds == 2

PianoNbSounds == PianoNbKeys + PianoNbSpecialSounds

\* pCurNote = &g_sounds[NB_SPECIAL_SOUNDS + key_index]
VoiceEntry(key_index) == PianoNbSpecialSounds + key_index

(***************************************************************************)
(* The key scanner of the Arduino: loop() reads the two switches of every  *)
(* key with read_state_of_all_keys and hands every key to manage_key,      *)
(* which follows the key through UP, FLOAT, DOWN, FLOAT, UP and sends the  *)
(* messages.  The keys of the model are the first NbScanKeys of the 98;    *)
(* micros() is the number of the turn of loop().                           *)
(***************************************************************************)
KEY_UP == 3

KEY_FLOAT == 1

KEY_DOWN == 0

\* (com_val << 1) | down_val: the four codes a read can give, 0b10 included.
KeyCodes == 0 .. 3

\* Number of keys scanned in the model, and of turns of loop().
NbScanKeys == 1

MaxLoops == 8

ScanKeys == 0 .. (NbScanKeys - 1)

\* The variables of one key after initialise_all_keys; last_sent, nb_sent,
\* adjacent and bounced record what was sent for the key and what its
\* samples have been.
InitialKey ==
    [ prev_keys_state |-> KEY_FLOAT, monitor_state |-> 0, time_start_up_float |-> 0,
      delta_time_up_float_down |-> 0,
      last_sent |-> "none", nb_sent |-> 0, adjacent |-> TRUE, bounced |-> FALSE ]

\* The position of the key a code stands for: 0 up, 1 between, 2 down.
KeyPosition(code) == IF code = KEY_UP THEN 0 ELSE IF code = KEY_FLOAT THEN 1 ELSE 2

\* From one sample to the next the key has stayed or moved to a position next
\* to it, and both samples are codes of a position.
AdjacentSamples(prev, cur) ==
    /\ prev \in {KEY_UP, KEY_FLOAT, KEY_DOWN}
    /\ cur \in {KEY_UP, KEY_FLOAT, KEY_DOWN}
    /\ KeyPosition(prev) - KeyPosition(cur) \in {-1, 0, 1}

\* manage_key that sends KEY_DOWN at every FLOAT -> DOWN transition.
manage_key_EveryDown(k, cur_key_state, now) ==
    LET prev == k.prev_keys_state
        mon  == k.monitor_state
    IN  IF prev = KEY_FLOAT /\ cur_key_state = KEY_DOWN
        THEN [k EXCEPT !.monitor_state = 2,
                       !.delta_time_up_float_down = now - k.time_start_up_float,
                       !.last_sent = "KEY_DOWN",
                       !.nb_sent = k.nb_sent + 1,
                       !.prev_keys_state = cur_key_state]
        ELSE [k EXCEPT !.prev_keys_state = cur_key_state]

\* manage_key for one key: the four transitions, then
\* prev_keys_state[key_index] = cur_key_state.
manage_key_of(k, cur_key_state, now) ==
    LET prev == k.prev_keys_state
        mon  == k.monitor_state
        k1 ==
          IF cur_key_state = prev THEN k
          ELSE IF prev = KEY_UP /\ cur_key_state = KEY_FLOAT
          THEN IF mon = 0
               THEN [k EXCEPT !.monitor_state = 1, !.time_start_up_float = now]
               ELSE k
          ELSE IF prev = KEY_FLOAT /\ cur_key_state = KEY_UP
          THEN [k EXCEPT !.monitor_state = 0,
                         !.delta_time_up_float_down = 0,
                         !.last_sent = IF mon = 3 THEN "KEY_UP" ELSE k.last_sent,
                         !.nb_sent = IF mon = 3 THEN k.nb_sent + 1 ELSE k.nb_sent]
          ELSE IF prev = KEY_FLOAT /\ cur_key_state = KEY_DOWN
          THEN IF mon = 1
               THEN [k EXCEPT !.monitor_state = 2,
                              !.delta_time_up_float_down = now - k.time_start_up_float,
                              !.last_sent = "KEY_DOWN",
                              !.nb_sent = k.nb_sent + 1]
               ELSE k
          ELSE IF prev = KEY_DOWN /\ cur_key_state = KEY_FLOAT
          THEN IF mon = 2 THEN [k EXCEPT !.monitor_state = 3] ELSE k
          ELSE k
    IN  [k1 EXCEPT !.prev_keys_state = cur_key_state]

\* What the samples of the key have been, this sample included.
KeyHistory(k, cur_key_state) ==
    [ adjacent |-> k.adjacent /\ AdjacentSamples(k.prev_keys_state, cur_key_state),
      bounced  |-> \/ k.bounced
                   \/ /\ k.prev_keys_state = KEY_FLOAT
                      /\ \/ cur_key_state = KEY_DOWN /\ k.monitor_state = 3
                         \/ cur_key_state = KEY_UP /\ k.monitor_state = 1 ]

\* The scanner in loop(): pc is "read" before read_state_of_all_keys and
\* "manage" in the loop over the keys; key_index is the key manage_key is
\* called for next, sample the code it was called with last.
Scanner(pc, keys, cur_keys_state, key_index, sample, micros) ==
    [ pc |-> pc, keys |-> keys, cur_keys_state |-> cur_keys_state,
      key_index |-> key_index, sample |-> sample, micros |-> micros ]

InitScan ==
    /\ g_sounds   = [i \in Sounds |-> LoadedSound(i)]
    /\ g_pedal_up = TRUE
    /\ disp       = Idle
    /\ last       = [ op |-> "main", sound |-> 0, before |-> "none" ]
    /\ rel_frames = [i \in Sounds |-> 0]
    /\ load       = Loaded
    /\ msg = Scanner("read", [key \in ScanKeys |-> InitialKey],
                     [key \in ScanKeys |-> KEY_FLOAT], 0, KEY_FLOAT, 0)

\* read_state_of_all_keys(cur_keys_state): a code for every key.
read_state_of_all_keys ==
    /\ msg.pc = "read"
    /\ msg.micros < MaxLoops
    /\ \E codes \in [ScanKeys -> KeyCodes] :
          msg' = [msg EXCEPT !.pc = "manage", !.cur_keys_state = codes,
                             !.key_index = 0, !.micros = msg.micros + 1]
    /\ UNCHANGED <<g_sounds, g_pedal_up, disp, last, rel_frames, load>>

\* manage_key(key_index), for the next key of the loop.
manage_key ==
    /\ msg.pc = "manage"
    /\ LET key  == msg.key_index
           cur  == msg.cur_keys_state[key]
           k    == msg.keys[key]
           hist == KeyHistory(k, cur)
       IN  msg' = [msg EXCEPT
                     !.keys[key] = [manage_key_of(k, cur, msg.micros) EXCEPT
                                      !.adjacent = hist.adjacent,
                                      !.bounced  = hist.bounced],
                     !.sample = cur,
                     !.key_index = key + 1,
                     !.pc = IF key + 1 = NbScanKeys THEN "read" ELSE "manage"]
    /\ UNCHANGED <<g_sounds, g_pedal_up, disp, last, rel_frames, load>>

NextScan ==
    \/ read_state_of_all_keys
    \/ manage_key

SpecScan == InitScan /\ [][NextScan]_vars

(***************************************************************************)
(* Properties.                                                             *)
(***************************************************************************)
Sound(i) == g_sounds[i]

\* The rest state of the data model.
AtRest(s) ==
    /\ s.playing = FALSE
    /\ s.cur_playing_pos = s.first_sample_pos
    /\ s.key_up_pos      = s.first_sample_pos
    /\ s.pedal_up_pos    = s.first_sample_pos
    /\ s.volume          = 0

\* The voice a trigger with volume vol leaves, whatever its state before.
Triggered(s, vol) ==
    [s EXCEPT !.cur_playing_pos = s.first_sample_pos,
              !.key_up_pos      = s.first_sample_pos,
              !.pedal_up_pos    = s.first_sample_pos,
              !.key_up          = FALSE,
              !.sound_end_soon  = FALSE,
              !.playing         = TRUE,
              !.volume          = vol]

\* Only voice i changes, and becomes s.
OnlyVoice(i, s) ==
    /\ g_sounds' = [g_sounds EXCEPT ![i] = s]
    /\ g_pedal_up' = g_pedal_up

\* C1: after any sequence of dispatcher events and callback frames, every
\* voice has 0 <= cur_playing_pos <= last_sample_pos.
C1_PosInRange ==
    \A i \in Sounds :
        /\ 0 <= Sound(i).cur_playing_pos
        /\ Sound(i).cur_playing_pos <= Sound(i).last_sample_pos

\* A frame has brought a playing voice to the end of its samples.
C1_Witness ==
    /\ last.op = "Frame"
    /\ \E i \in Sounds :
          /\ Sound(i).playing
          /\ Sound(i).nb_samples > 0
          /\ Sound(i).cur_playing_pos = Sound(i).last_sample_pos

\* C2: a voice that is not playing has cur_playing_pos, key_up_pos and
\* pedal_up_pos at first_sample_pos and volume 0.
C2_RestInvariant ==
    \A i \in Sounds : ~Sound(i).playing => AtRest(Sound(i))

\* C3: a trigger (KeyDown, start_playing_a_note, play_special_sound) run
\* without interruption leaves its voice at first_sample_pos with key_up and
\* sound_end_soon false, playing true and the computed volume, whatever the
\* state of the voice before, and changes no other voice nor g_pedal_up.
C3_TriggerEffect ==
    [][ /\ \A key_index \in Keys, attack_time \in AttackTimes :
              (last'.op = "KeyDown" /\ KeyDown(key_index, attack_time)) =>
                  OnlyVoice(NB_SPECIAL_SOUNDS + key_index,
                            Triggered(Sound(NB_SPECIAL_SOUNDS + key_index),
                                      compute_volume(attack_time)))
        /\ \A key_index \in Keys, amplification \in MidiAmplifications :
              (last'.op = "start_playing_a_note"
                 /\ start_playing_a_note(key_index, amplification)) =>
                  OnlyVoice(NB_SPECIAL_SOUNDS + key_index,
                            Triggered(Sound(NB_SPECIAL_SOUNDS + key_index),
                                      amplification))
        /\ \A sound_idx \in SpecialSounds :
              (last'.op = "Special" /\ play_special_sound(sound_idx)) =>
                  OnlyVoice(sound_idx, Triggered(Sound(sound_idx), VolScale))
      ]_vars

\* A KeyDown has retriggered a voice in the middle of its release, while
\* another note and a special sound were playing.
C3_Witness ==
    /\ last.op = "KeyDown"
    /\ last.before = "release"
    /\ Sound(last.sound) = Triggered(Sound(last.sound), compute_volume(MAX_ATTACK_TIME))
    /\ \E j \in NoteSounds :
          /\ j # last.sound
          /\ Sound(j).playing
          /\ Sound(j).cur_playing_pos > Sound(j).first_sample_pos
    /\ \E j \in SpecialSounds : Sound(j).playing

\* C4: under every interleaving of the stores of KeyDown with callback
\* frames, the first frame after KeyDown has completed sees the voice playing
\* with cur_playing_pos = first_sample_pos.
C4_FirstFrameAfterKeyDown ==
    last.op = "KeyDown" =>
        /\ Sound(last.sound).playing
        /\ Sound(last.sound).cur_playing_pos = Sound(last.sound).first_sample_pos

\* The dispatcher is in a trigger of voice i that was at rest when it began.
MidTriggerFromRest(i) ==
    disp.pc = "trigger" /\ disp.sound = i /\ disp.before = "rest"

\* C5: while a trigger of a voice that was at rest has not stored
\* playing = true, the voice is not playing and a callback frame leaves it
\* untouched, whichever of the other stores have been done.
C5_ArmedLast ==
    \A i \in Sounds :
        MidTriggerFromRest(i) =>
            /\ ~Sound(i).playing
            /\ FrameVoice(Sound(i), g_pedal_up) = Sound(i)

\* A frame has run in the middle of the trigger of a voice at rest, after
\* every store but the last.
C5_Witness ==
    \E i \in NoteSounds :
        /\ MidTriggerFromRest(i)
        /\ disp.k = NbTriggerWrites
        /\ disp.preempted
        /\ \E j \in Sounds : Sound(j).playing

\* C6: KeyUp sets key_up_pos to the current cur_playing_pos and key_up to
\* true, and changes nothing else.
C6_KeyUpEffect ==
    [][ \A key_index \in Keys :
           ( /\ last'.op \in {"KeyUp", "stop_playing_a_note"}
             /\ (KeyUp(key_index) \/ stop_playing_a_note(key_index)) ) =>
               LET i == NB_SPECIAL_SOUNDS + key_index IN
               OnlyVoice(i, [Sound(i) EXCEPT !.key_up_pos = Sound(i).cur_playing_pos,
                                             !.key_up     = TRUE])
      ]_vars

\* A KeyUp has recorded the position of a voice that has played some frames.
C6_Witness ==
    /\ last.op = "KeyUp"
    /\ Sound(last.sound).playing
    /\ Sound(last.sound).key_up
    /\ Sound(last.sound).cur_playing_pos > Sound(last.sound).first_sample_pos
    /\ Sound(last.sound).key_up_pos = Sound(last.sound).cur_playing_pos

\* C7: PedalDown sets g_pedal_up to false and pedal_up_pos of every note to
\* its first_sample_pos; no other field of a note and no field of a special
\* sound changes.
C7_PedalDownEffect ==
    [][ (last'.op = "PedalDown" /\ PedalDown) =>
           /\ g_pedal_up' = FALSE
           /\ \A i \in NoteSounds :
                 g_sounds'[i] = [Sound(i) EXCEPT !.pedal_up_pos = Sound(i).first_sample_pos]
           /\ \A i \in SpecialSounds : g_sounds'[i] = Sound(i)
      ]_vars

\* A PedalDown has reset the pedal position of a note that plays with its key
\* released, and left a playing special sound alone.
C7_Witness ==
    /\ last.op = "PedalDown"
    /\ ~g_pedal_up
    /\ \E i \in NoteSounds :
          /\ Sound(i).playing
          /\ Sound(i).key_up
          /\ Sound(i).key_up_pos > Sound(i).first_sample_pos
          /\ Sound(i).pedal_up_pos = Sound(i).first_sample_pos
    /\ \E i \in SpecialSounds : Sound(i).playing

\* C8: PedalUp sets g_pedal_up to true and pedal_up_pos of every note to that
\* note's own cur_playing_pos at the time of the event.
C8_PedalUpEffect ==
    [][ (last'.op = "PedalUp" /\ PedalUp) =>
           /\ g_pedal_up' = TRUE
           /\ \A i \in NoteSounds :
                 g_sounds'[i] = [Sound(i) EXCEPT !.pedal_up_pos = Sound(i).cur_playing_pos]
           /\ \A i \in SpecialSounds : g_sounds'[i] = Sound(i)
      ]_vars

\* A PedalUp has given two playing notes, started at different times,
\* different offsets.
C8_Witness ==
    /\ last.op = "PedalUp"
    /\ g_pedal_up
    /\ \E i, j \in NoteSounds :
          /\ Sound(i).playing /\ Sound(j).playing
          /\ Sound(i).pedal_up_pos = Sound(i).cur_playing_pos
          /\ Sound(j).pedal_up_pos = Sound(j).cur_playing_pos
          /\ Sound(i).pedal_up_pos - Sound(i).first_sample_pos
               > Sound(j).pedal_up_pos - Sound(j).first_sample_pos
          /\ Sound(j).pedal_up_pos > Sound(j).first_sample_pos

\* C9, the length of the cycle: a voice that plays with its key up and the
\* pedal up has been through at most WAV_ENV_END_NB_SAMPLES frames of ramp;
\* the frame after them resets it.
C9_ReleaseLength ==
    \A i \in Sounds :
        Releasing(g_sounds, g_pedal_up, i) => rel_frames[i] <= WAV_ENV_END_NB_SAMPLES

\* C9, the reset: the frame that stops a voice leaves it in the rest state of
\* the data model, with key_up and sound_end_soon false.
C9_ResetToRest ==
    \A i \in Sounds :
        (Sound(i).playing /\ ~g_sounds'[i].playing) =>
            /\ AtRest(g_sounds'[i])
            /\ g_sounds'[i].key_up = FALSE
            /\ g_sounds'[i].sound_end_soon = FALSE

\* C9, idempotence: a frame changes no field of a voice that is not playing.
C9_Idempotent ==
    (last'.op = "Frame" /\ AudioCallback) =>
        \A i \in Sounds : ~Sound(i).playing => g_sounds'[i] = Sound(i)

\* C9: a playing voice with key_up and g_pedal_up is reset to the rest state
\* after the frames of the release envelope, once, and later frames leave it
\* unchanged.
C9_ReleaseCycle ==
    [](C9_ReleaseLength) /\ [][C9_ResetToRest /\ C9_Idempotent]_vars

\* C10: while the key is up and the pedal is down, a frame applies no release
\* ramp to a playing voice and leaves it playing, as long as more than
\* WAV_ENV_END_NB_SAMPLES samples remain.
C10_PedalDefersRelease ==
    [][ (last'.op = "Frame" /\ AudioCallback) =>
           \A i \in Sounds :
              ( /\ Sound(i).playing
                /\ Sound(i).key_up
                /\ ~g_pedal_up
                /\ Sound(i).last_sample_pos - Sound(i).cur_playing_pos
                     > WAV_ENV_END_NB_SAMPLES )
              => /\ ~InRelease(EndSoon(Sound(i)), g_pedal_up)
                 /\ release_factor(EndSoon(Sound(i)), g_pedal_up) = WAV_ENV_END_NB_SAMPLES
                 /\ g_sounds'[i] = [Sound(i) EXCEPT
                                      !.cur_playing_pos = Sound(i).cur_playing_pos + 1]
      ]_vars

\* A voice whose key was released with the pedal down still plays, without
\* ramp, more than WAV_ENV_END_NB_SAMPLES frames after the release of the key.
C10_Witness ==
    /\ last.op = "Frame"
    /\ ~g_pedal_up
    /\ \E i \in NoteSounds :
          /\ Sound(i).playing
          /\ Sound(i).key_up
          /\ ~Sound(i).sound_end_soon
          /\ Sound(i).cur_playing_pos - Sound(i).key_up_pos > WAV_ENV_END_NB_SAMPLES

\* The later of two positions.
LaterPos(a, b) == IF a >= b THEN a ELSE b

\* C11: in a frame that finds a playing voice with sound_end_soon not set, a
\* release ramp is applied only if the key is up and the pedal is up, and the
\* ramp is then measured from the later of key_up_pos and pedal_up_pos: the
\* factor is (later + WAV_ENV_END_NB_SAMPLES - cur_playing_pos) over
\* WAV_ENV_END_NB_SAMPLES, and the voice is reset once cur_playing_pos is
\* WAV_ENV_END_NB_SAMPLES past the later position.
C11_ReleaseFromLaterPos ==
    [][ (last'.op = "Frame" /\ AudioCallback) =>
           \A i \in Sounds :
              LET s     == EndSoon(Sound(i))
                  later == LaterPos(s.key_up_pos, s.pedal_up_pos)
              IN  (Sound(i).playing /\ ~s.sound_end_soon) =>
                     /\ InRelease(s, g_pedal_up) => (s.key_up /\ g_pedal_up)
                     /\ ~(s.key_up /\ g_pedal_up) =>
                           release_factor(s, g_pedal_up) = WAV_ENV_END_NB_SAMPLES
                     /\ (s.key_up /\ g_pedal_up) =>
                           IF s.cur_playing_pos - later >= WAV_ENV_END_NB_SAMPLES
                           THEN /\ release_factor(s, g_pedal_up) = 0
                                /\ ~g_sounds'[i].playing
                           ELSE /\ release_factor(s, g_pedal_up)
                                      = later + WAV_ENV_END_NB_SAMPLES - s.cur_playing_pos
                                /\ g_sounds'[i].playing
      ]_vars

\* A frame has applied the ramp to a voice whose key was released first and
\* whose pedal was released later, both after the start of the sound: the
\* ramp is counted from the pedal's position.
C11_Witness ==
    /\ last.op = "Frame"
    /\ g_pedal_up
    /\ \E i \in NoteSounds :
          /\ Sound(i).playing
          /\ Sound(i).key_up
          /\ ~Sound(i).sound_end_soon
          /\ Sound(i).key_up_pos > Sound(i).first_sample_pos
          /\ Sound(i).pedal_up_pos > Sound(i).key_up_pos
          /\ Sound(i).cur_playing_pos > Sound(i).pedal_up_pos

\* Voice i is in the j-th frame after a KeyUp at position k = cur_playing_pos - j
\* with the pedal up and untouched since the trigger, k being more than
\* `margin` samples before the end of the sound.
AfterKeyUp(i, j, margin) ==
    /\ Releasing(g_sounds, g_pedal_up, i)
    /\ rel_frames[i] = j
    /\ Sound(i).last_sample_pos - (Sound(i).cur_playing_pos - j) > margin
    /\ \/ Sound(i).pedal_up_pos = Sound(i).first_sample_pos
       \/ Sound(i).sound_end_soon /\ Sound(i).pedal_up_pos = Sound(i).key_up_pos

\* What C12 expects of the j-th frame after the KeyUp.
RampFrame(i, j) ==
    IF j < WAV_ENV_END_NB_SAMPLES
    THEN /\ release_factor(EndSoon(Sound(i)), g_pedal_up) = WAV_ENV_END_NB_SAMPLES - j
         /\ g_sounds'[i].playing
    ELSE ~g_sounds'[i].playing

\* C12: after KeyDown and KeyUp at a position k more than
\* WAV_ENV_END_NB_SAMPLES before last_sample_pos, pedal up throughout, the
\* j-th frame after KeyUp (j = 0 .. WAV_ENV_END_NB_SAMPLES - 1) applies the
\* factor (WAV_ENV_END_NB_SAMPLES - j) / WAV_ENV_END_NB_SAMPLES and the frame
\* j = WAV_ENV_END_NB_SAMPLES resets the voice.
C12_RampPerFrame ==
    [][ (last'.op = "Frame" /\ AudioCallback) =>
           \A i \in NoteSounds, j \in 0 .. WAV_ENV_END_NB_SAMPLES :
              AfterKeyUp(i, j, WAV_ENV_END_NB_SAMPLES) => RampFrame(i, j)
      ]_vars

\* The last event was a trigger of voice i.
Retriggered(i) ==
    last.op \in {"KeyDown", "start_playing_a_note", "Special"} /\ last.sound = i

\* C13: with the callback running for ever, a playing voice eventually stops
\* playing unless it is triggered again, whatever KeyUp, PedalDown and PedalUp
\* events arrive and whatever the length of its sound.
C13_EventuallyStops ==
    \A i \in Sounds :
        Sound(i).playing ~> (~Sound(i).playing \/ Retriggered(i))

\* C14: under every interleaving of the dispatcher's stores with frames, a
\* frame that stops a voice finds it at the end of a whole release ramp:
\* release_pos <= cur_playing_pos and
\* cur_playing_pos - release_pos = WAV_ENV_END_NB_SAMPLES.
C14_NoCutOff ==
    [][ (last'.op = "Frame" /\ AudioCallback) =>
           \A i \in Sounds :
              (Sound(i).playing /\ ~g_sounds'[i].playing) =>
                  LET s == EndSoon(Sound(i)) IN
                  /\ release_pos(s) <= s.cur_playing_pos
                  /\ s.cur_playing_pos - release_pos(s) = WAV_ENV_END_NB_SAMPLES
      ]_vars

\* The reference line of the volume, max_gain - (max_gain - min_gain) *
\* (t - MIN_ATTACK_TIME) / (MAX_ATTACK_TIME - MIN_ATTACK_TIME) with gains 1.0
\* and 0.1, which is (110000 - t) / 100000 = (110000 - t) * 2^23 / 3125 units
\* of 2^-28; as a pair [a, b] of the float model, b rounded down.
reference_volume(time) ==
    LET q == (110000 - time) \div 3125
        r == (110000 - time) % 3125
    IN  [ a |-> q * 8388608 + r * 2684 + (r * 1108) \div 3125,
          b |-> (((r * 1108) % 3125) * 4096) \div 3125 ]

\* 2^-23, the distance from 1.0f to the next float, in units of 2^-28.
VolTolerance == 32

Computed == msg.pc = "computed"

C16_Monotone ==
    (Computed /\ msg.earlier # << >>) =>
        LET before == msg.earlier[1]
        IN  /\ before.attack_time <= msg.attack_time => before.volume >= msg.volume
            /\ before.attack_time >= msg.attack_time => before.volume <= msg.volume

\* Two volumes on either side of the point where the lower clamp starts to
\* apply have been computed, the second one smaller.
C16_Witness ==
    /\ Computed
    /\ msg.earlier # << >>
    /\ msg.earlier[1].attack_time = MAX_ATTACK_TIME
    /\ msg.attack_time = MAX_ATTACK_TIME + 1
    /\ msg.earlier[1].volume > msg.volume

\* The addresses of the keys that are wired: six per board of seven, and the
\* seventh of boards 0 and 6.
ConnectedAddresses == {k \in 0 .. 97 : k % 7 # 6} \cup {6, 48}

\* The logical indices: notes 0..84 and the pedal.
PianoIndices == 0 .. PEDAL_KEY_IDX

Analyzed == msg.pc = "analyzed"

\* C17: on the addresses of connected keys arduino_to_piano_key_index is one
\* to one and onto 0..85 (as many addresses as indices, no two addresses with
\* the same index); 6 gives 0, 48 gives the pedal index 85, 7 gives 7, and no
\* other address gives the pedal index.
C17_Bijection ==
    (Analyzed /\ msg.key_index_arduino \in ConnectedAddresses) =>
        /\ msg.key_index \in PianoIndices
        /\ Cardinality(ConnectedAddresses) = Cardinality(PianoIndices)
        /\ \A e \in 1 .. Len(msg.earlier) :
              (/\ msg.earlier[e].key_index_arduino \in ConnectedAddresses
               /\ msg.earlier[e].key_index_arduino # msg.key_index_arduino)
                  => msg.earlier[e].key_index # msg.key_index
        /\ msg.key_index_arduino = 6 => msg.key_index = 0
        /\ msg.key_index_arduino = 48 => msg.key_index = PEDAL_KEY_IDX
        /\ msg.key_index_arduino = 7 => msg.key_index = 7
        /\ msg.key_index_arduino # 48 => msg.key_index # PEDAL_KEY_IDX

\* The address of the pedal has been mapped after the address next to it.
C17_Witness ==
    /\ Analyzed
    /\ msg.earlier # << >>
    /\ msg.earlier[1].key_index_arduino = 49
    /\ msg.key_index_arduino = 48
    /\ msg.key_index = PEDAL_KEY_IDX
    /\ msg.earlier[1].key_index = 43

\* C18: for an address that is not the address of a connected key,
\* analyze_msg_received reports an error (a result other than 0), and the
\* index it hands over is neither a note index nor the pedal index.
C18_InvalidAddressIsError ==
    (Analyzed /\ msg.key_index_arduino \notin ConnectedAddresses) =>
        /\ msg.result # 0
        /\ msg.key_index \notin PianoIndices

LoadDone == load.pc = "loaded"

C20_CapacityChecked ==
    \A i \in Sounds : Sound(i).last_sample_pos <= MAX_WAV_DATA_SIZE_WORD

\* The place of sound i in the sample buffer.
Layout(snd, i) ==
    << snd[i].first_sample_pos, snd[i].last_sample_pos, snd[i].nb_samples >>

\* C21: a message handled in programming mode, whatever the program and the
\* files, leaves first_sample_pos, last_sample_pos and nb_samples of every
\* special sound and g_first_note_position as they were, and the first note
\* starts at g_first_note_position.
C21_SpecialSoundsKeepTheirPlace ==
    [][ (load.pc = "loaded" /\ msg'.pc = "programming") =>
           /\ \A i \in SpecialSounds : Layout(g_sounds', i) = Layout(g_sounds, i)
           /\ load'.g_first_note_position = load.g_first_note_position
           /\ g_sounds'[NB_SPECIAL_SOUNDS].first_sample_pos = load.g_first_note_position
           /\ g_sounds[NB_SPECIAL_SOUNDS].first_sample_pos = load.g_first_note_position
      ]_vars

\* The notes have been reloaded a second time, for program 2, the first note
\* with samples after special sounds that have samples.
C21_Witness ==
    /\ msg.pc = "programming"
    /\ msg.msg_type = "KEY_UP_MSG"
    /\ msg.count = 2
    /\ msg.prog_index = 2
    /\ Sound(0).nb_samples > 0
    /\ Sound(NB_SPECIAL_SOUNDS).nb_samples > 0
    /\ Sound(NB_SPECIAL_SOUNDS).first_sample_pos = Sound(NB_SPECIAL_SOUNDS - 1).last_sample_pos
    /\ Sound(SOUND_READY_IDX).playing

\* C22: a message for which receive_msg_on_uart or analyze_msg_received
\* reports a failure is dropped: the loop goes back to waiting without a
\* change of any voice or of g_pedal_up; the voices and g_pedal_up change only
\* when a message was received and analyzed without error; and the analysis
\* of a message always returns.
C22_FailureDiscards ==
    [][ /\ (msg.pc \in {"received", "analyzed"} /\ msg.result # 0) =>
              (msg'.pc = "waiting" /\ g_sounds' = g_sounds /\ g_pedal_up' = g_pedal_up)
        /\ (g_sounds' # g_sounds \/ g_pedal_up' # g_pedal_up) =>
              (msg.pc = "analyzed" /\ msg.result = 0)
        /\ msg'.pc # "fault"
      ]_vars

\* C23: once the start marker is received, receive_msg_on_uart returns after
\* a bounded number of characters: when more than MAX_MESSAGE_SIZE characters
\* have been received for a message, the function has returned, with an error.
C23_BoundedReceive ==
    msg.nb_received > MAX_MESSAGE_SIZE => (msg.pc = "received" /\ msg.result = -1)

\* A step of the MIDI driver that parses the event at msg'.at.
MidiEventStep == msg.pc = "midi_events" /\ msg'.pc # "midi_header"

\* The sound of the key a note event at `at` names.
MidiSound(at) == NB_SPECIAL_SOUNDS + midi_key_idx(Byte(msg.file, at + 1))

\* C24: in the MIDI driver a Note-On event (status 0x9n) with a velocity above
\* 0 makes the stores of start_playing_a_note on the sound of the mapped key,
\* a Note-On event with velocity 0 makes the stores of stop_playing_a_note on
\* it, and a Note-Off event (status 0x8n) makes the stores of
\* stop_playing_a_note on it.
C24_NoteEventsDrive ==
    [][MidiEventStep =>
         LET at       == msg'.at
             status   == Byte(msg.file, at)
             velocity == Byte(msg.file, at + 2)
             i        == MidiSound(at)
         IN  /\ (status \in 144 .. 159 /\ velocity > 0) =>
                   g_sounds'[i] = TriggerWrites(NbTriggerWrites, g_sounds[i],
                                                midi_amplification(velocity))
             /\ (status \in 144 .. 159 /\ velocity = 0) =>
                   g_sounds'[i] = KeyUpWrites(g_sounds[i])
             /\ status \in 128 .. 143 =>
                   g_sounds'[i] = KeyUpWrites(g_sounds[i])]_vars

\* The part of C24 about Note-On events alone.
C24_NoteOnDrives ==
    [][MidiEventStep =>
         LET at       == msg'.at
             status   == Byte(msg.file, at)
             velocity == Byte(msg.file, at + 2)
             i        == MidiSound(at)
         IN  /\ (status \in 144 .. 159 /\ velocity > 0) =>
                   g_sounds'[i] = TriggerWrites(NbTriggerWrites, g_sounds[i],
                                                midi_amplification(velocity))
             /\ (status \in 144 .. 159 /\ velocity = 0) =>
                   g_sounds'[i] = KeyUpWrites(g_sounds[i])]_vars

\* The declared length of the event whose first byte is at `at`, counted from
\* `at`: a meta event is 0xFF, its type, its length and that many bytes; a
\* system-exclusive event is 0xF0 or 0xF7, its length and that many bytes; a
\* channel message is its status byte and one or two data bytes.
DeclaredLength(file, at) ==
    LET status == Byte(file, at) IN
    IF status = 255
    THEN LET v_length == midi_decode_var_length_param(file, at + 2)
         IN  2 + v_length.len + v_length.value
    ELSE IF status \in {240, 247}
    THEN LET v_length == midi_decode_var_length_param(file, at + 1)
         IN  1 + v_length.len + v_length.value
    ELSE 1 + nb_data_bytes_of((status \div 16) * 16)

\* The first bytes of the events of C25 other than system-exclusive ones:
\* meta events, polyphonic pressure, control change, program change, channel
\* pressure and pitch bend.
SkippedStatus == {255} \cup (160 .. 239)

\* C25: in the MIDI driver every event that is neither a Note-On nor a
\* Note-Off (a meta event, a system-exclusive event 0xF0 or 0xF7, another
\* channel message) moves the read index to the first byte after the event,
\* by its declared length, and changes no voice.
C25_OthersSkipped ==
    [][(MidiEventStep /\ Byte(msg.file, msg'.at) \in SkippedStatus \cup {240, 247}) =>
          /\ msg'.idx = msg'.at + DeclaredLength(msg.file, msg'.at)
          /\ g_sounds' = g_sounds]_vars

\* The part of C25 about meta events and channel messages.
C25_MetaAndChannelSkipped ==
    [][(MidiEventStep /\ Byte(msg.file, msg'.at) \in SkippedStatus) =>
          /\ msg'.idx = msg'.at + DeclaredLength(msg.file, msg'.at)
          /\ g_sounds' = g_sounds]_vars

\* The bytes of a system-exclusive event change no voice.
C25_SysExChangesNoVoice ==
    [][(MidiEventStep /\ msg'.at > msg.idx /\ Byte(msg.file, msg.idx - 1) = 240) =>
          g_sounds' = g_sounds]_vars

\* C26: play_midi_file_from_ram(nb_tracks_to_play, nb_notes_to_play) calls
\* start_playing_a_note at most nb_notes_to_play times and parses the events
\* of at most nb_tracks_to_play tracks.
C26_AtMostRequested ==
    /\ msg.notes_started <= msg.nb_notes_to_play
    /\ msg.tracks_parsed <= msg.nb_tracks_to_play

\* What the two tests of the driver bound: one note more than asked for in
\* each track, and one track more than asked for.
C26_OneMore ==
    /\ msg.note_counter <= msg.nb_notes_to_play + 1
    /\ msg.tracks_parsed <= msg.nb_tracks_to_play + 1

\* C27: the volume of every voice is within [0, 1] at all times, whichever
\* path triggered it: compute_volume of a keyboard message,
\* play_special_sound, or velocity / 80 of a MIDI Note-On, velocity 1..127.
C27_VolumeInRange ==
    \A i \in Sounds : g_sounds[i].volume >= 0 /\ g_sounds[i].volume <= VolScale

\* Full scale of the 16-bit output, as floats: -32768 / 32768 and
\* 32767 / 32768.
FullScaleLow == s162f(-32768)

FullScaleHigh == s162f(32767)

InFullScale(x) == fle(FullScaleLow, x) /\ fle(x, FullScaleHigh)

\* C28: with at most MAX_NB_SIMULTANEOUS_NOTES voices playing, each of volume
\* at most 1, whatever their 16-bit samples, the signal summed from the
\* values sample / 10 stays within full scale, [-32768, 32767] in 16-bit
\* units, while it is summed and when it is written out.
C28_MixWithinFullScale ==
    msg.pc \in {"mix", "out"} => InFullScale(msg.sig_float)

\* Ten voices at full volume on the largest sample have been summed.
C28_Witness ==
    /\ msg.pc = "out"
    /\ msg.nb_playing = MAX_NB_SIMULTANEOUS_NOTES
    /\ msg.sig_float = s162f(MAX_NB_SIMULTANEOUS_NOTES * polyphony_div(32767))

\* C29: a sound whose file failed to load (nb_samples = 0, first_sample_pos =
\* last_sample_pos) adds exactly 0 to the signal in every frame, triggered or
\* not, whatever g_sample_data holds at its position.
C29_EmptySoundIsSilent ==
    msg.pc = "play" =>
       \A i \in NoteSounds : g_sounds[i].nb_samples = 0 => msg.note_sig[i] = FloatZero

\* A sound of no sample has been triggered and a frame has processed it as
\* playing.
C29_Witness ==
    /\ msg.pc = "play"
    /\ \E i \in NoteSounds :
          /\ g_sounds[i].nb_samples = 0
          /\ g_sounds[i].first_sample_pos = g_sounds[i].last_sample_pos
          /\ g_sounds[i].playing
          /\ msg.frames[i] > 1

\* A note of at least a release of samples that was triggered when it was
\* not playing and got no event since.
HeldFromRest(i) ==
    /\ msg.held[i]
    /\ g_sounds[i].nb_samples >= WAV_ENV_END_NB_SAMPLES

C31_EndSoonLatchesOnce ==
    /\ [][ (last'.op = "Frame" /\ AudioCallback) =>
              \A i \in Sounds :
                 LET s0 == Sound(i)
                     s  == EndSoon(s0)
                     rp == LaterPos(s.key_up_pos, s.pedal_up_pos)
                 IN  s0.playing =>
                        /\ ( /\ ~s0.sound_end_soon
                             /\ s0.last_sample_pos - s0.cur_playing_pos
                                   <= WAV_ENV_END_NB_SAMPLES )
                           => /\ g_sounds'[i].playing
                              /\ g_sounds'[i].sound_end_soon
                              /\ g_sounds'[i].key_up_pos = s0.cur_playing_pos
                              /\ g_sounds'[i].pedal_up_pos = s0.cur_playing_pos
                        /\ (~s0.sound_end_soon /\ g_sounds'[i].sound_end_soon)
                           => s0.last_sample_pos - s0.cur_playing_pos
                                 <= WAV_ENV_END_NB_SAMPLES
                        /\ s.sound_end_soon
                           => /\ InRelease(s, g_pedal_up)
                              /\ release_factor(s, g_pedal_up) =
                                    IF s.cur_playing_pos - rp >= WAV_ENV_END_NB_SAMPLES
                                    THEN 0
                                    ELSE rp + WAV_ENV_END_NB_SAMPLES - s.cur_playing_pos
       ]_vars
    /\ [][ \A i \in Sounds :
              /\ (~Sound(i).sound_end_soon /\ g_sounds'[i].sound_end_soon)
                 => (last'.op = "Frame" /\ Sound(i).playing)
              /\ (Sound(i).sound_end_soon /\ ~g_sounds'[i].sound_end_soon)
                 => \/ (last'.op = "Frame" /\ ~g_sounds'[i].playing)
                    \/ ( /\ last'.op \in {"KeyDown", "start_playing_a_note", "Special"}
                         /\ last'.sound = i )
       ]_vars

\* A frame has ramped a voice whose key is still down and whose pedal is
\* held, past the position where sound_end_soon was set.
C31_Witness ==
    /\ last.op = "Frame"
    /\ ~g_pedal_up
    /\ \E i \in NoteSounds :
          /\ Sound(i).playing
          /\ Sound(i).sound_end_soon
          /\ ~Sound(i).key_up
          /\ Sound(i).cur_playing_pos > Sound(i).key_up_pos
          /\ Sound(i).key_up_pos = Sound(i).pedal_up_pos

\* C32: with every dispatcher event atomic with respect to the frames, a
\* playing voice always has first_sample_pos <= key_up_pos <= cur_playing_pos
\* and first_sample_pos <= pedal_up_pos <= cur_playing_pos, also after a
\* KeyDown that retriggers it in the middle of a release; hence the unsigned
\* cur_playing_pos - release_pos of a frame never wraps around.
C32_ReleasePositionsOrdered ==
    \A i \in Sounds :
       Sound(i).playing =>
          /\ Sound(i).first_sample_pos <= Sound(i).key_up_pos
          /\ Sound(i).key_up_pos <= Sound(i).cur_playing_pos
          /\ Sound(i).first_sample_pos <= Sound(i).pedal_up_pos
          /\ Sound(i).pedal_up_pos <= Sound(i).cur_playing_pos
          /\ release_pos(EndSoon(Sound(i))) <= Sound(i).cur_playing_pos

\* A KeyDown has retriggered a voice that was in its release, after the
\* pedal and the key had been released past the start of the sound.
C32_Witness ==
    /\ last.op = "KeyDown"
    /\ last.before = "release"
    /\ Sound(last.sound).playing
    /\ Sound(last.sound).cur_playing_pos = Sound(last.sound).first_sample_pos
    /\ \E i \in NoteSounds :
          /\ i # last.sound
          /\ Sound(i).playing
          /\ Sound(i).key_up_pos > Sound(i).first_sample_pos

\* C33: in every frame, for every playing voice, the index at which the
\* callback reads g_sample_data, cur_playing_pos, satisfies first_sample_pos
\* <= cur_playing_pos < last_sample_pos: the sample belongs to the sound of
\* the voice.
C33_ReadsOwnSamples ==
    [][ (last'.op = "Frame" /\ AudioCallback) =>
           \A i \in Sounds :
              Sound(i).playing =>
                 /\ Sound(i).first_sample_pos <= Sound(i).cur_playing_pos
                 /\ Sound(i).cur_playing_pos < Sound(i).last_sample_pos
      ]_vars

\* What the callback keeps: the index read is at most last_sample_pos, and
\* the frame that reads at last_sample_pos applies a release factor of 0
\* unless the release was restarted within the last samples.
C33_ReadsUpToLast ==
    [][ (last'.op = "Frame" /\ AudioCallback) =>
           \A i \in Sounds :
              Sound(i).playing =>
                 /\ Sound(i).first_sample_pos <= Sound(i).cur_playing_pos
                 /\ Sound(i).cur_playing_pos <= Sound(i).last_sample_pos
      ]_vars

\* The two decimal characters of a message give a raw value 0..99.
RawKeyValues == 0 .. 99

\* C34: for every key index decoded from a raw value 0..99, the dispatcher
\* handles the event as the pedal or takes a voice table entry whose index
\* is in [NB_SPECIAL_SOUNDS, NB_SOUNDS); it never indexes out of the table.
C34_VoiceEntryInRange ==
    (Analyzed /\ msg.result = 0 /\ msg.key_index_arduino \in RawKeyValues) =>
        \/ msg.key_index = PEDAL_KEY_IDX
        \/ /\ PianoNbSpecialSounds <= VoiceEntry(msg.key_index)
           /\ VoiceEntry(msg.key_index) < PianoNbSounds

\* Every raw value but 99 is handled as the pedal or falls in the table.
C34_InRangeBelow99 ==
    (Analyzed /\ msg.result = 0 /\ msg.key_index_arduino \in RawKeyValues \ {99}) =>
        \/ msg.key_index = PEDAL_KEY_IDX
        \/ /\ PianoNbSpecialSounds <= VoiceEntry(msg.key_index)
           /\ VoiceEntry(msg.key_index) < PianoNbSounds

\* C35: receive_msg_on_uart writes msg_rec only at indices
\* 0 .. MAX_MESSAGE_SIZE - 1, the final 0 it stores before returning included,
\* whatever the characters received.
C35_WritesInsideBuffer ==
    msg.max_written <= MAX_MESSAGE_SIZE - 1

\* The highest index written is MAX_MESSAGE_SIZE, one cell after the buffer.
C35_WritesUpToSize ==
    msg.max_written <= MAX_MESSAGE_SIZE

\* C36: PedalUp stores the pedal_up_pos of every note before it sets
\* g_pedal_up, so under every interleaving with frames, when g_pedal_up
\* becomes true every playing note whose key is released has a release
\* position that is the position stored by this PedalUp: it is not before
\* the position of the key release and not after cur_playing_pos, and when
\* no frame has run during the handler the frame that follows applies the
\* full factor; g_pedal_up is set by no other step of the handler.
C36_SnapshotBeforeFlag ==
    [][ /\ (disp.pc = "pedalup_flag" /\ disp'.pc = "idle") =>
              \A i \in NoteSounds :
                 LET s == g_sounds'[i] IN
                 (s.playing /\ s.key_up /\ ~s.sound_end_soon) =>
                     /\ g_pedal_up'
                     /\ s.key_up_pos <= s.pedal_up_pos
                     /\ s.pedal_up_pos <= s.cur_playing_pos
                     /\ release_pos(s) = s.pedal_up_pos
                     /\ (~disp.preempted =>
                            release_factor(EndSoon(s), TRUE) = WAV_ENV_END_NB_SAMPLES)
        /\ (disp.pc \in {"pedalup_store", "pedalup_load"}) => g_pedal_up' = g_pedal_up
      ]_vars

\* PedalUp has just set g_pedal_up; a note whose key was released more than
\* an envelope ago, the pedal holding it since, has its release position at
\* the stored position, and a frame has run since the store.
C36_Witness ==
    /\ last.op = "PedalUp"
    /\ g_pedal_up
    /\ \E i \in NoteSounds :
          /\ Sound(i).playing
          /\ Sound(i).key_up
          /\ ~Sound(i).sound_end_soon
          /\ Sound(i).key_up_pos < Sound(i).pedal_up_pos
          /\ Sound(i).pedal_up_pos < Sound(i).cur_playing_pos
          /\ Sound(i).cur_playing_pos - Sound(i).key_up_pos > WAV_ENV_END_NB_SAMPLES

\* The release factor the next frame applies to voice s (numerator over
\* WAV_ENV_END_NB_SAMPLES).
NextFactor(s, pedal_up) == release_factor(EndSoon(s), pedal_up)

\* The release factor the frame that has just run applied to voice s, a voice
\* it left playing and before its last sample.
LastFactor(s, pedal_up) ==
    IF ~InRelease(s, pedal_up) THEN WAV_ENV_END_NB_SAMPLES
    ELSE release_pos(s) + WAV_ENV_END_NB_SAMPLES - (s.cur_playing_pos - 1)

\* KeyUp, PedalDown or PedalUp has run (stop_playing_a_note is the KeyUp of
\* the MIDI driver).
ReleaseEvent == last'.op \in {"KeyUp", "PedalDown", "PedalUp", "stop_playing_a_note"}

\* From one frame to the next, without an event between them: the factor of
\* a voice in its ramp does not increase.
C37_FrameToFrame ==
    [][ (last'.op = "Frame" /\ AudioCallback) =>
           \A i \in Sounds :
              ( /\ Sound(i).playing
                /\ g_sounds'[i].playing
                /\ NextFactor(Sound(i), g_pedal_up) < WAV_ENV_END_NB_SAMPLES )
              => NextFactor(g_sounds'[i], g_pedal_up') <= NextFactor(Sound(i), g_pedal_up)
      ]_vars

\* From one frame to the next, with one KeyUp, PedalDown or PedalUp between
\* them: the factor of a voice in its ramp does not increase.
C37_AcrossEvent ==
    [][ (last.op = "Frame" /\ ReleaseEvent) =>
           \A i \in NoteSounds :
              ( /\ Sound(i).playing
                /\ Sound(i).first_sample_pos < Sound(i).cur_playing_pos
                /\ Sound(i).cur_playing_pos < Sound(i).last_sample_pos
                /\ LastFactor(Sound(i), g_pedal_up) < WAV_ENV_END_NB_SAMPLES )
              => NextFactor(g_sounds'[i], g_pedal_up') <= LastFactor(Sound(i), g_pedal_up)
      ]_vars

\* C37: once a frame has applied a release factor below 1 to a voice, the
\* factor applied to it does not increase from one frame to the next until
\* the voice is at rest or retriggered, whatever KeyUp, PedalDown and PedalUp
\* events arrive during the release.
C37_FactorNeverIncreases == C37_FrameToFrame /\ C37_AcrossEvent

\* manage_key is being called for key `key`.
Managed(key) == msg.pc = "manage" /\ msg.key_index = key

\* C38: for a key whose samples have only stayed or moved between adjacent
\* positions (UP and FLOAT, FLOAT and DOWN), bounces included, the messages
\* manage_key sends alternate KEY_DOWN, KEY_UP, KEY_DOWN, ..., from KEY_DOWN
\* on: a KEY_DOWN is sent only when the last message of the key was not a
\* KEY_DOWN, a KEY_UP only when it was a KEY_DOWN, and one message at most
\* per call.
C38_MessagesAlternate ==
    [][ \A key \in ScanKeys :
           (Managed(key) /\ msg'.keys[key].adjacent) =>
              LET k == msg.keys[key]
                  n == msg'.keys[key]
              IN  \/ n.nb_sent = k.nb_sent /\ n.last_sent = k.last_sent
                  \/ /\ n.nb_sent = k.nb_sent + 1
                     /\ n.last_sent = "KEY_DOWN" => k.last_sent \in {"none", "KEY_UP"}
                     /\ n.last_sent = "KEY_UP" => k.last_sent = "KEY_DOWN"
                     /\ n.last_sent \in {"KEY_DOWN", "KEY_UP"}
      ]_vars

\* A key that has moved between adjacent positions only and has bounced at
\* the bottom of its travel has been pressed and released: two messages, the
\* last one a KEY_UP.
C38_Witness ==
    \E key \in ScanKeys :
       /\ msg.pc = "read"
       /\ msg.keys[key].adjacent
       /\ msg.keys[key].bounced
       /\ msg.keys[key].monitor_state = 0
       /\ msg.keys[key].nb_sent = 2
       /\ msg.keys[key].last_sent = "KEY_UP"

\* C39: whatever the samples (a scan that misses FLOAT, the code 0b10), when
\* a key for which KEY_DOWN was sent is sampled as UP, manage_key has sent
\* KEY_UP for it when it returns.
C39_UpIsReported ==
    [][ \A key \in ScanKeys :
           ( /\ Managed(key)
             /\ msg.keys[key].last_sent = "KEY_DOWN"
             /\ msg.cur_keys_state[key] = KEY_UP )
           => msg'.keys[key].last_sent = "KEY_UP"
      ]_vars

\* With samples that move between adjacent positions only, the KEY_UP is
\* sent.
C39_UpIsReportedWhenAdjacent ==
    [][ \A key \in ScanKeys :
           ( /\ Managed(key)
             /\ msg'.keys[key].adjacent
             /\ msg.keys[key].last_sent = "KEY_DOWN"
             /\ msg.cur_keys_state[key] = KEY_UP )
           => msg'.keys[key].last_sent = "KEY_UP"
      ]_vars

\* C40: whatever the bytes of a track, every turn of the loop over the events
\* of play_midi_file_from_ram leaves the read index at least one byte further
\* than it found it, so that the parsing of a track ends.
C40_EveryTurnAdvances ==
    [][ msg.pc = "midi_events" => msg'.idx > msg.idx ]_vars

\* The turns that begin with a delta-time of one to four bytes with a last
\* byte, or under a running status, or on a status byte below 0xF8, advance.
C40_AdvancesAfterDeltaOrStatus ==
    [][ ( /\ msg.pc = "midi_events"
          /\ \/ midi_decode_var_length_param(msg.file, msg.idx).len > 0
             \/ msg.running_status # 0
             \/ Byte(msg.file, msg.idx) < 248 )
        => msg'.idx > msg.idx ]_vars

\* No turn of the loop over the events finds the parser where the turn
\* before found it, with notes still to play: such a turn repeats for ever.
C40_NoEndlessTurn ==
    ~( /\ msg.pc = "midi_events"
       /\ msg.note_counter < msg.nb_notes_to_play
       /\ LET v_time == midi_decode_var_length_param(msg.file, msg.idx)
              ev     == midi_parse(msg.file, msg.idx + v_time.len, msg.running_status)
          IN  /\ ev.idx = msg.idx
              /\ ev.running_status = msg.running_status
              /\ ev.call = "none" )

==============================================================================
